---------------------------- MODULE Spec2Model ----------------------------
(***************************************************************************)
(* Speech evaluation service: the EvaluationReport contract                *)
(* (schemas/evaluation.py), the report generation ladder                   *)
(* (services/report_service.py) and the request flow that persists its     *)
(* result (routers/v1/evaluation.py, repositories/evaluation_repository.py *)
(* and services/elevenlabs_service.py), behind token_required              *)
(* (app/auth/auth.py).  The specifications: SpecValidate (validation of    *)
(* candidate reports), SpecGen (generate_report on its own), Spec          *)
(* (requests served one after the other), SpecLive (Spec with the          *)
(* fairness of a request that runs to its end), SpecRepository             *)
(* (get_or_create_evaluation on its own) and SpecConcurrent (requests      *)
(* served at the same time, each in its own session).                      *)
(*                                                                         *)
(* Conventions.  A Python str is a sequence of one-character strings, so   *)
(* that str.strip, str.startswith and str.split are computed and not       *)
(* assumed.  A JSON object (a Python dict) is a function from field names  *)
(* to values.  A value handed to model_validate is tagged with its JSON    *)
(* kind, [kind |-> "object", obj |-> d], because json.loads may also give  *)
(* an array, a scalar or null.  Inside an object every present field       *)
(* carries a value of its declared JSON type (int, string, list, object):  *)
(* pydantic's type coercions are outside the model.                        *)
(***************************************************************************)
EXTENDS Integers, Sequences, FiniteSets, TLC

(***************************************************************************)
(* Bounds of the model.                                                    *)
(***************************************************************************)
\* how many edits are applied to a candidate report before it is validated
MaxEdits == 1
\* how many requests the request flow handles, one after the other
MaxRequests == 2

\* how many requests are served concurrently
MaxWorkers == 2

(***************************************************************************)
(* Program constants.                                                      *)
(***************************************************************************)
\* score: int = Field(ge=0, ...)
SCORE_GE == 0
\* score: int = Field(..., le=100)
SCORE_LE == 100
\* strengths / improvement_areas / action_plan: min_length=1
LIST_MIN_LENGTH == 1
\* strengths / improvement_areas: max_length=10
LIST_MAX_LENGTH == 10
\* action_plan: max_length=7
ACTION_PLAN_MAX_LENGTH == 7

(***************************************************************************)
(* Python str helpers.                                                     *)
(***************************************************************************)
\* the characters str.strip() removes (those the model's alphabet has)
Whitespace == {" ", "\n", "\t"}

RECURSIVE lstrip(_)
lstrip(s) ==
    IF s = <<>> THEN <<>>
    ELSE IF Head(s) \in Whitespace THEN lstrip(Tail(s)) ELSE s

RECURSIVE rstrip(_)
rstrip(s) ==
    IF s = <<>> THEN <<>>
    ELSE IF s[Len(s)] \in Whitespace THEN rstrip(SubSeq(s, 1, Len(s) - 1)) ELSE s

\* str.strip()
strip(s) == rstrip(lstrip(s))

\* Python truthiness of a str
Truthy(s) == s # <<>>

\* str.startswith(prefix)
startswith(s, prefix) ==
    /\ Len(s) >= Len(prefix)
    /\ SubSeq(s, 1, Len(prefix)) = prefix

(***************************************************************************)
(* The field sets of the schema classes.                                   *)
(***************************************************************************)
CriteriaItemFields == {"score", "band", "notes"}

EvaluationCriteriaFields ==
    {"clarity_understandability", "tone_style", "engagement_interactivity",
     "structure_organization", "content_accuracy_validity",
     "persuasion_influence", "language_quality", "speech_patterns"}

ActionPlanItemFields ==
    {"focus", "what_to_improve", "why_it_matters", "how_to_improve"}

EvaluationReportSchemaFields ==
    {"overall_score", "overall_band", "summary", "criteria", "strengths",
     "improvement_areas", "action_plan"}

\* what a failed validation raises
ValidationError == [error |-> "ValidationError"]

\* a dict restricted to the declared fields: pydantic's default extra="ignore"
\* keeps the declared fields and drops the others
Declared(d, fields) == [f \in fields |-> d[f]]

(***************************************************************************)
(* Validation, class by class.  Each Ok operator is the condition under    *)
(* which pydantic builds the instance, each Build operator the instance.   *)
(***************************************************************************)
\* a criterion validated without the upper bound of its score
CriteriaItemOk_NoUpperBound(d) ==
    /\ CriteriaItemFields \subseteq DOMAIN d
    /\ d["score"] >= 0

CriteriaItemOk(d) ==
    /\ CriteriaItemFields \subseteq DOMAIN d
    /\ d["score"] >= SCORE_GE
    /\ d["score"] <= SCORE_LE

EvaluationCriteriaOk(d) ==
    /\ EvaluationCriteriaFields \subseteq DOMAIN d
    /\ \A c \in EvaluationCriteriaFields : CriteriaItemOk(d[c])

EvaluationCriteriaBuild(d) ==
    [c \in EvaluationCriteriaFields |-> Declared(d[c], CriteriaItemFields)]

ActionPlanItemOk(d) == ActionPlanItemFields \subseteq DOMAIN d

\* validated = [item.strip() for item in v if item.strip()]
RECURSIVE StripNonEmpty(_)
StripNonEmpty(v) ==
    IF v = <<>> THEN <<>>
    ELSE IF Truthy(strip(Head(v)))
         THEN <<strip(Head(v))>> \o StripNonEmpty(Tail(v))
         ELSE StripNonEmpty(Tail(v))

\* the field validator of strengths and improvement_areas: the list it returns
validate_list_not_empty(v) == StripNonEmpty(v)

\* if not validated: raise ValueError(...)
validate_list_not_empty_raises(v) == StripNonEmpty(v) = <<>>

\* a string list validated as if an entry with surrounding whitespace raised
StrListOk_RejectsPadded(v) ==
    /\ Len(v) >= LIST_MIN_LENGTH
    /\ Len(v) <= LIST_MAX_LENGTH
    /\ \A i \in 1..Len(v) : Truthy(v[i]) /\ strip(v[i]) = v[i]

\* a list[str] field with min_length/max_length and the field validator, which
\* pydantic runs after the length constraints
StrListOk(v) ==
    /\ Len(v) >= LIST_MIN_LENGTH
    /\ Len(v) <= LIST_MAX_LENGTH
    /\ ~validate_list_not_empty_raises(v)

\* the action plan validated with the bound of the string lists
ActionPlanOk_MaxTen(v) ==
    /\ Len(v) >= LIST_MIN_LENGTH
    /\ Len(v) <= LIST_MAX_LENGTH
    /\ \A i \in 1..Len(v) : ActionPlanItemOk(v[i])

ActionPlanOk(v) ==
    /\ Len(v) >= LIST_MIN_LENGTH
    /\ Len(v) <= ACTION_PLAN_MAX_LENGTH
    /\ \A i \in 1..Len(v) : ActionPlanItemOk(v[i])

EvaluationReportSchemaOk(d) ==
    /\ EvaluationReportSchemaFields \subseteq DOMAIN d
    /\ d["overall_score"] >= SCORE_GE
    /\ d["overall_score"] <= SCORE_LE
    /\ EvaluationCriteriaOk(d["criteria"])
    /\ StrListOk(d["strengths"])
    /\ StrListOk(d["improvement_areas"])
    /\ ActionPlanOk(d["action_plan"])

EvaluationReportSchemaBuild(d) ==
    [overall_score     |-> d["overall_score"],
     overall_band      |-> d["overall_band"],
     summary           |-> d["summary"],
     criteria          |-> EvaluationCriteriaBuild(d["criteria"]),
     strengths         |-> validate_list_not_empty(d["strengths"]),
     improvement_areas |-> validate_list_not_empty(d["improvement_areas"]),
     action_plan       |-> [i \in 1..Len(d["action_plan"]) |->
                               Declared(d["action_plan"][i], ActionPlanItemFields)]]

\* EvaluationReportSchema.model_validate(data): the report, or ValidationError
model_validate(data) ==
    IF data.kind # "object" THEN ValidationError
    ELSE IF EvaluationReportSchemaOk(data.obj)
         THEN EvaluationReportSchemaBuild(data.obj)
         ELSE ValidationError


(***************************************************************************)
(* Model responses.  A response text is [chars, doc]: its characters, with *)
(* the character "J" standing for the serialisation of the JSON value doc  *)
(* (a complete JSON document, on one line).  Backtick is the character of  *)
(* a code block marker, "j" a letter of a language tag; any other text is  *)
(* made of "x".                                                            *)
(***************************************************************************)
Text(chars, doc) == [chars |-> chars, doc |-> doc]

\* the value of a text that holds no JSON document
NoDoc == [kind |-> "none", obj |-> [none |-> TRUE]]

\* json.loads("null")
NullDoc == [kind |-> "null", obj |-> [none |-> TRUE]]

Backtick == "backtick"

\* the code block marker the parser looks for
Fence == <<Backtick, Backtick, Backtick>>

\* str.split(sep) for a one-character separator
RECURSIVE split(_, _)
split(s, sep) ==
    IF \A i \in 1..Len(s) : s[i] # sep THEN <<s>>
    ELSE LET k == CHOOSE i \in 1..Len(s) :
                     s[i] = sep /\ \A j \in 1..(i - 1) : s[j] # sep
         IN  <<SubSeq(s, 1, k - 1)>> \o split(SubSeq(s, k + 1, Len(s)), sep)

\* sep.join(lines)
RECURSIVE join(_, _)
join(lines, sep) ==
    IF lines = <<>> THEN <<>>
    ELSE IF Len(lines) = 1 THEN lines[1]
    ELSE lines[1] \o <<sep>> \o join(Tail(lines), sep)

\* what json.loads raises
JSONDecodeError == [error |-> "JSONDecodeError"]

\* json.loads(text): the document when the text is exactly one JSON document
\* with optional whitespace around it
json_loads(chars, doc) ==
    IF strip(chars) = <<"J">> THEN doc ELSE JSONDecodeError

\* the part of _parse_and_validate that removes the code block markers
StripCodeBlock(chars) ==
    LET text == strip(chars)
    IN  IF startswith(text, Fence)
        THEN LET lines  == split(text, "\n")
                 lines1 == IF startswith(lines[1], Fence) THEN Tail(lines) ELSE lines
                 lines2 == IF lines1 # <<>> /\ strip(lines1[Len(lines1)]) = Fence
                           THEN SubSeq(lines1, 1, Len(lines1) - 1)
                           ELSE lines1
             IN  strip(join(lines2, "\n"))
        ELSE strip(text)

\* Python's None
None == [none |-> TRUE]

\* ReportService._parse_and_validate(response_text): the report, or None
parse_and_validate(response_text) ==
    LET data == json_loads(StripCodeBlock(response_text.chars), response_text.doc)
    IN  IF data = JSONDecodeError THEN None
        ELSE IF model_validate(data) = ValidationError THEN None
        ELSE model_validate(data)

(***************************************************************************)
(* Candidate reports: the inputs of validation.                            *)
(***************************************************************************)
Good == <<"G", "o", "o", "d">>

MakeCriteriaItem(score) ==
    [score |-> score, band |-> Good, notes |-> <<"n">>]

MakeActionPlanItem ==
    [f \in ActionPlanItemFields |-> <<"p">>]

\* a report object with every score `score`, nStr entries `entry` in each
\* string list and nPlan action-plan items
MakeReport(score, nStr, nPlan, entry) ==
    [overall_score     |-> score,
     overall_band      |-> Good,
     summary           |-> <<"s">>,
     criteria          |-> [c \in EvaluationCriteriaFields |-> MakeCriteriaItem(score)],
     strengths         |-> [i \in 1..nStr |-> entry],
     improvement_areas |-> [i \in 1..nStr |-> entry],
     action_plan       |-> [i \in 1..nPlan |-> MakeActionPlanItem]]

\* the reports the edits start from: a middle one whose list entries carry
\* surrounding whitespace, and the two at the bounds of the contract
BaseReports ==
    {MakeReport(50, 2, 2, <<" ", "a", " ">>),
     MakeReport(SCORE_GE, LIST_MIN_LENGTH, LIST_MIN_LENGTH, <<"a">>),
     MakeReport(SCORE_LE, LIST_MAX_LENGTH, ACTION_PLAN_MAX_LENGTH, <<"a">>)}

JsonObject(d) == [kind |-> "object", obj |-> d]

\* strings that are blank after trimming
BlankStrings == {<<>>, <<" ">>}

\* scores around both bounds
ScoreValues == {SCORE_GE - 1, SCORE_GE, SCORE_LE, SCORE_LE + 1}

\* list lengths around all bounds
LengthValues ==
    {LIST_MIN_LENGTH - 1, LIST_MIN_LENGTH, ACTION_PLAN_MAX_LENGTH,
     ACTION_PLAN_MAX_LENGTH + 1, LIST_MAX_LENGTH, LIST_MAX_LENGTH + 1}

StrListFields == {"strengths", "improvement_areas"}
ListFields == StrListFields \cup {"action_plan"}

\* a field name no schema class declares
ExtraField == "unexpected"

\* One edit of a candidate report.  op: remove a field, add an extra field,
\* set a score, resize a list, blank a string.  at: the object edited (the
\* report, its criteria object, one criterion `name`, action-plan item `idx`,
\* or entry `idx` of the string list `field`).
Edit(op, at, name, idx, fld, num, str) ==
    [op |-> op, at |-> at, name |-> name, idx |-> idx, field |-> fld,
     num |-> num, str |-> str]

HasCriteria(d) == "criteria" \in DOMAIN d
HasCriterion(d, c) == HasCriteria(d) /\ c \in DOMAIN d["criteria"]
HasList(d, f) == f \in DOMAIN d

\* the fields that can be removed from the report d, object by object
RemoveEdits(d) ==
    {Edit("remove", "report", "", 0, f, 0, <<>>) : f \in DOMAIN d}
    \cup (IF HasCriteria(d)
          THEN {Edit("remove", "criteria", "", 0, c, 0, <<>>) : c \in DOMAIN d["criteria"]}
          ELSE {})
    \cup UNION {{Edit("remove", "criterion", c, 0, f, 0, <<>>) :
                   f \in DOMAIN d["criteria"][c]} :
                 c \in (IF HasCriteria(d) THEN DOMAIN d["criteria"] ELSE {})}
    \cup UNION {{Edit("remove", "item", "", i, f, 0, <<>>) :
                   f \in DOMAIN d["action_plan"][i]} :
                 i \in (IF HasList(d, "action_plan") THEN 1..Len(d["action_plan"]) ELSE {})}

\* the objects an extra field can be added to
ExtraEdits(d) ==
    {Edit("extra", "report", "", 0, ExtraField, 0, <<>>)}
    \cup (IF HasCriteria(d)
          THEN {Edit("extra", "criteria", "", 0, ExtraField, 0, <<>>)}
          ELSE {})
    \cup {Edit("extra", "criterion", c, 0, ExtraField, 0, <<>>) :
            c \in (IF HasCriteria(d) THEN DOMAIN d["criteria"] \ {ExtraField} ELSE {})}
    \cup {Edit("extra", "item", "", i, ExtraField, 0, <<>>) :
            i \in (IF HasList(d, "action_plan") THEN 1..Len(d["action_plan"]) ELSE {})}

ScoreEdits(d) ==
    {Edit("score", "report", "", 0, "overall_score", v, <<>>) :
        v \in (IF "overall_score" \in DOMAIN d THEN ScoreValues ELSE {})}
    \cup UNION {{Edit("score", "criterion", c, 0, "score", v, <<>>) : v \in ScoreValues} :
                 c \in {x \in EvaluationCriteriaFields :
                          HasCriterion(d, x) /\ "score" \in DOMAIN d["criteria"][x]}}

LengthEdits(d) ==
    UNION {{Edit("length", "report", "", 0, f, n, <<>>) : n \in LengthValues} :
           f \in {x \in ListFields : HasList(d, x)}}

BlankEdits(d) ==
    UNION {{Edit("blank", "report", "", 0, f, 0, s) : s \in BlankStrings} :
           f \in {"summary", "overall_band"} \cap DOMAIN d}
    \cup UNION {UNION {{Edit("blank", "criterion", c, 0, f, 0, s) : s \in BlankStrings} :
                        f \in {"band", "notes"} \cap DOMAIN d["criteria"][c]} :
                 c \in {x \in EvaluationCriteriaFields : HasCriterion(d, x)}}
    \cup UNION {UNION {{Edit("blank", "item", "", i, f, 0, s) : s \in BlankStrings} :
                        f \in ActionPlanItemFields \cap DOMAIN d["action_plan"][i]} :
                 i \in (IF HasList(d, "action_plan") THEN 1..Len(d["action_plan"]) ELSE {})}
    \cup UNION {UNION {{Edit("blank", "entry", "", i, f, 0, s) : s \in BlankStrings} :
                        i \in 1..Len(d[f])} :
                 f \in {x \in StrListFields : HasList(d, x)}}

\* the four band names of the prompt, and a string that is none of them
Bands ==
    {<<"P", "o", "o", "r">>, <<"A", "v", "e", "r", "a", "g", "e">>, Good,
     <<"E", "x", "c", "e", "l", "l", "e", "n", "t">>}
BandValues == Bands \cup {<<"F", "a", "i", "r">>, <<"g", "o", "o", "d">>}

BandEdits(d) ==
    {Edit("band", "report", "", 0, "overall_band", 0, s) :
        s \in (IF "overall_band" \in DOMAIN d THEN BandValues ELSE {})}

EditsOf(d) ==
    RemoveEdits(d) \cup ExtraEdits(d) \cup ScoreEdits(d) \cup LengthEdits(d)
    \cup BlankEdits(d) \cup BandEdits(d)

Without(obj, f) == [k \in DOMAIN obj \ {f} |-> obj[k]]
WithExtra(obj, f) == (f :> <<"x">>) @@ obj

\* the list `old` cut or filled to n entries
Resize(old, n, fill) ==
    [i \in 1..n |-> IF i <= Len(old) THEN old[i] ELSE fill]

\* the object `obj` of the report d that the edit e is at, replaced by new
ApplyAt(d, e, new(_)) ==
    CASE e.at = "report"    -> new(d)
      [] e.at = "criteria"  -> [d EXCEPT !["criteria"] = new(@)]
      [] e.at = "criterion" -> [d EXCEPT !["criteria"][e.name] = new(@)]
      [] e.at = "item"      -> [d EXCEPT !["action_plan"][e.idx] = new(@)]

ApplyEdit(d, e) ==
    CASE e.op = "remove" ->
            LET new(obj) == Without(obj, e.field) IN ApplyAt(d, e, new)
      [] e.op = "extra" ->
            LET new(obj) == WithExtra(obj, e.field) IN ApplyAt(d, e, new)
      [] e.op = "score" ->
            LET new(obj) == [obj EXCEPT ![e.field] = e.num] IN ApplyAt(d, e, new)
      [] e.op = "length" ->
            [d EXCEPT ![e.field] =
                Resize(@, e.num,
                       IF e.field = "action_plan" THEN MakeActionPlanItem ELSE <<"a">>)]
      [] e.op = "band" ->
            [d EXCEPT ![e.field] = e.str]
      [] e.op = "blank" ->
            IF e.at = "entry"
            THEN [d EXCEPT ![e.field][e.idx] = e.str]
            ELSE LET new(obj) == [obj EXCEPT ![e.field] = e.str] IN ApplyAt(d, e, new)

(***************************************************************************)
(* What the generative model and the transcriber may answer.               *)
(***************************************************************************)
GoodDoc == JsonObject(MakeReport(50, 2, 2, <<" ", "a", " ">>))

\* a report object with one criterion score out of range
BadScoreDoc ==
    JsonObject([MakeReport(50, 2, 2, <<"a">>)
                   EXCEPT !["criteria"]["tone_style"]["score"] = SCORE_LE + 1])

\* the JSON object written out in USER_PROMPT_TEMPLATE, with a value of the
\* type asked for in the place of each placeholder
USER_PROMPT_TEMPLATE_Example ==
    [overall_score |-> 50,
     overall_band  |-> Good,
     summary       |-> <<"s">>,
     criteria      |-> [c \in EvaluationCriteriaFields |-> MakeCriteriaItem(50)],
     diagnostic_analysis |->
        [speech_analysis |->
            [fluency_and_flow |->
                [assessment |-> <<"s">>, observations |-> <<<<"s">>>>, trend |-> <<"s">>],
             grammar_accuracy |->
                [assessment |-> <<"s">>,
                 repeated_errors |-> <<[error |-> <<"s">>, correction |-> <<"s">>,
                                        category |-> <<"s">>]>>,
                 trend |-> <<"s">>],
             sentence_construction |->
                [assessment |-> <<"s">>, positive_examples |-> <<<<"s">>>>],
             vocabulary_usage |-> [assessment |-> <<"s">>, notes |-> <<"s">>],
             fillers_and_clutter |-> [filler_count_estimate |-> <<"s">>, notes |-> <<"s">>],
             confidence_and_tone |-> [assessment |-> <<"s">>],
             thought_structure |->
                [assessment |-> <<"s">>, organization_pattern |-> <<"s">>],
             professionalism |-> [assessment |-> <<"s">>, notes |-> <<"s">>]],
         comparative_insights |->
            [improvements |-> <<<<"s">>>>, unchanged_issues |-> <<<<"s">>>>,
             new_issues |-> <<<<"s">>>>, regressions |-> <<<<"s">>>>],
         professional_effectiveness |->
            [strengths |-> <<<<"s">>>>,
             critical_concerns |-> <<<<"s">>>>,
             credibility_impact |->
                ("informal_contexts" :> <<"s">>) @@ ("formal_contexts" :> <<"s">>)
                    @@ ("cross-cultural_contexts" :> <<"s">>),
             pattern_analysis |-> <<"s">>]],
     action_plan |-> <<[focus_area |-> <<"s">>, issue |-> <<"s">>,
                        why_it_matters |-> <<"s">>, corrective_action |-> <<"s">>,
                        verification_step |-> <<"s">>]>>]

\* the JSON object written out in FIX_JSON_PROMPT, likewise
FIX_JSON_PROMPT_Example ==
    [overall_score     |-> 50,
     overall_band      |-> Good,
     summary           |-> <<"s">>,
     criteria          |-> [c \in EvaluationCriteriaFields |-> MakeCriteriaItem(50)],
     strengths         |-> <<<<"s">>>>,
     improvement_areas |-> <<<<"s">>>>,
     action_plan       |-> <<[focus |-> <<"s">>, what_to_improve |-> <<"s">>,
                              why_it_matters |-> <<"s">>, how_to_improve |-> <<"s">>]>>]

\* a response that follows the example of the free-text prompt exactly
FollowsUserPrompt == JsonObject(USER_PROMPT_TEMPLATE_Example)

\* a response that follows the example of the repair prompt exactly
FollowsFixPrompt == JsonObject(FIX_JSON_PROMPT_Example)

\* the objects the model may emit
ModelDocs == {GoodDoc, BadScoreDoc}

\* the texts the model may answer with: a JSON document bare, with
\* whitespace around it, inside a code block, inside a code block with a
\* language tag; a document that fails validation; the document that follows
\* the example of the free-text prompt, inside a code block; null; not JSON
\* at all
ResponseTexts ==
    {Text(<<"J">>, GoodDoc),
     Text(<<" ", "J", "\n">>, GoodDoc),
     Text(Fence \o <<"\n", "J", "\n">> \o Fence, GoodDoc),
     Text(Fence \o <<"j", "\n", "J", "\n">> \o Fence \o <<"\n">>, GoodDoc),
     Text(<<"J">>, BadScoreDoc),
     Text(Fence \o <<"j", "\n", "J", "\n">> \o Fence, FollowsUserPrompt),
     Text(<<"J">>, NullDoc),
     Text(<<"x", " ", "J">>, GoodDoc),
     Text(<<>>, NoDoc)}

\* a call of the model raises (transport error, timeout, unsupported mode) or
\* answers
StructuredOutcomes ==
    {[kind |-> "error", text |-> Text(<<>>, NoDoc)]}
    \cup {[kind |-> "object", text |-> Text(<<"J">>, d)] : d \in ModelDocs}

RawOutcomes ==
    {[kind |-> "error", text |-> Text(<<>>, NoDoc)]}
    \cup {[kind |-> "text", text |-> t] : t \in ResponseTexts}

\* the transcripts generate_report may be given
Transcripts == {<<>>, <<" ">>, <<" ", "\n">>, <<"h", "i">>, <<" ", "y", "o">>}

(***************************************************************************)
(* State.                                                                  *)
(***************************************************************************)
VARIABLES
    base,           \* validation: the report the candidate was made from
    edits,          \* validation: the edits applied to it, in order
    cand,           \* validation: the candidate handed to model_validate
    verdict         \* validation: Pending, or what model_validate gave

VARIABLES
    pc,             \* where the request (or the call of generate_report) is
    transcription,  \* generate_report's argument
    response_text,  \* generate_report's local: the free-text answer, or None
    report,         \* what generate_report returned, or None
    status_code,    \* the status of the HTTPException raised, or 0
    detail,         \* the detail of the HTTPException raised or answered, or None
    calls,          \* history: the model calls made, [tier, prompt], in order
    replies         \* history: what the model answered to each call

VARIABLES
    nreq,           \* how many requests have been received
    authorization,  \* the request: the Authorization header presented, or None
    employee_id,    \* the request: auth_payload["user_id"], or 0
    actor_id,       \* the user_id given to get_or_create_evaluation, or 0 (None)
    file,           \* the request: the uploaded file, or None
    session_open,   \* the request holds a storage session
    sess_evaluation,\* the session: the flushed, uncommitted evaluation row, or None
    sess_report,    \* the session: the flushed, uncommitted report row, or None
    was_created,    \* what get_or_create_evaluation said
    db_evaluation,  \* committed: the set of evaluation rows
    db_reports,     \* committed: the report rows, oldest first
    next_id,        \* the next fresh row id (an id rolled back is given out again)
    http_status,    \* the status of the response, or 0 while there is none
    snapshot,       \* history: committed storage when the request arrived
    outcomes,       \* history: employee and transcript of each request answered 200
    clock,          \* the storage server's time: transactions begun so far
    workers         \* concurrent requests: one record per request in flight

valVars == <<base, edits, cand, verdict>>
genVars == <<pc, transcription, response_text, report, status_code, detail, calls, replies>>
reqVars == <<nreq, authorization, employee_id, actor_id, file, session_open, sess_evaluation,
             sess_report,
             was_created, db_evaluation, db_reports, next_id, http_status, snapshot,
             outcomes, clock, workers>>
vars == <<valVars, genVars, reqVars>>

Pending == [pending |-> TRUE]

\* the validation variables when no candidate is under validation
ValIdle ==
    /\ base = None
    /\ edits = <<>>
    /\ cand = None
    /\ verdict = Pending

Employees == {1, 2}

\* the request flow before any request
ReqIdle ==
    /\ nreq = 0
    /\ authorization = None
    /\ employee_id = 0
    /\ actor_id = 0
    /\ file = None
    /\ session_open = FALSE
    /\ sess_evaluation = None
    /\ sess_report = None
    /\ was_created = FALSE
    /\ db_evaluation = {}
    /\ db_reports = <<>>
    /\ next_id = 1
    /\ http_status = 0
    /\ snapshot = None
    /\ outcomes = <<>>
    /\ clock = 0
    /\ workers = <<>>

\* the variables of generate_report when it is not running
GenIdle ==
    /\ pc = "idle"
    /\ transcription = <<>>
    /\ response_text = None
    /\ report = None
    /\ status_code = 0
    /\ detail = None
    /\ calls = <<>>
    /\ replies = <<>>

(***************************************************************************)
(* Validation of edited candidates.                                        *)
(***************************************************************************)
InitValidate ==
    /\ base \in BaseReports
    /\ edits = <<>>
    /\ cand = JsonObject(base)
    /\ verdict = Pending
    /\ GenIdle
    /\ ReqIdle

\* the caller changes the candidate before it is validated
EditCandidate ==
    /\ verdict = Pending
    /\ Len(edits) < MaxEdits
    /\ \E e \in EditsOf(cand.obj) :
          /\ cand' = JsonObject(ApplyEdit(cand.obj, e))
          /\ edits' = Append(edits, e)
    /\ UNCHANGED <<base, verdict, genVars, reqVars>>

\* report = EvaluationReportSchema.model_validate(data)
Validate ==
    /\ verdict = Pending
    /\ verdict' = model_validate(cand)
    /\ UNCHANGED <<base, edits, cand, genVars, reqVars>>

NextValidate == EditCandidate \/ Validate

SpecValidate == InitValidate /\ [][NextValidate]_vars

(***************************************************************************)
(* ReportService.generate_report: the three-tier ladder.  One action per   *)
(* stretch of code between two awaits.                                     *)
(***************************************************************************)
Call(tier, prompt) == [tier |-> tier, prompt |-> prompt]

\* the entry check without its strip(): whitespace goes to the model
TranscriptionIsEmpty_NoStrip(t) == ~Truthy(t)

\* if not transcription or not transcription.strip()
TranscriptionIsEmpty(t) == ~Truthy(t) \/ ~Truthy(strip(t))

\* _generate_with_structured_output: the structured model decodes the answer
\* into EvaluationReportSchema, so an answer that does not validate raises
\* inside ainvoke like any other failure of the call; every exception gives None
generate_with_structured_output(outcome) ==
    IF outcome.kind = "error" THEN None
    ELSE IF model_validate(outcome.text.doc) = ValidationError THEN None
    ELSE model_validate(outcome.text.doc)

\* a detail that is a string literal
Detail(text) == [template |-> text, kind |-> "literal", value |-> None]

\* a detail that is an f-string: the text with its one placeholder, what
\* kind of value is put there, and the value
FString(template, kind, value) == [template |-> template, kind |-> kind, value |-> value]

\* the exceptions a call may raise; they differ in their message
Exceptions ==
    {[message |-> "connection refused"],
     [message |-> "password authentication failed for user app"]}

\* str(e)
str(e) == e.message

\* raise HTTPException(status_code=..., detail=...)
Raise(code, d) ==
    /\ pc' = "raised"
    /\ status_code' = code
    /\ detail' = d
    /\ report' = None

\* except Exception as e: raise HTTPException(502, ...) of generate_report
ExceptException ==
    \E e \in Exceptions :
        Raise(502, FString("Report generation failed: {}", "exception", str(e)))

\* raise HTTPException(502, ...) after the repair attempt
RaiseAfterRetry ==
    Raise(502, Detail("Failed to generate valid evaluation report after retry"))

\* return report
Return(r) ==
    /\ pc' = "returned"
    /\ report' = r
    /\ UNCHANGED <<status_code, detail>>

\* entry of generate_report up to the first model call
GenerateReportEntry ==
    /\ pc = "generate_report"
    /\ IF TranscriptionIsEmpty(transcription)
       THEN /\ Raise(422, Detail("Transcription is empty, cannot generate report"))
            /\ UNCHANGED calls
       ELSE /\ pc' = "await_structured"
            /\ calls' = Append(calls, Call("structured", Text(transcription, NoDoc)))
            /\ UNCHANGED <<report, status_code, detail>>
    /\ UNCHANGED <<transcription, response_text, replies, valVars, reqVars>>

\* the structured call without "if report: return report"
StructuredReturns_NoShortCircuit ==
    /\ pc = "await_structured"
    /\ \E o \in StructuredOutcomes :
          /\ replies' = Append(replies, o)
          /\ pc' = "await_raw"
          /\ calls' = Append(calls, Call("free_text", Text(transcription, NoDoc)))
    /\ UNCHANGED <<report, status_code, detail, transcription, response_text, valVars, reqVars>>

\* the structured call ends: return its report, or make the free-text call
StructuredReturns ==
    /\ pc = "await_structured"
    /\ \E o \in StructuredOutcomes :
          /\ replies' = Append(replies, o)
          /\ LET r == generate_with_structured_output(o)
             IN  IF r # None
                 THEN /\ Return(r)
                      /\ UNCHANGED calls
                 ELSE /\ pc' = "await_raw"
                      /\ calls' = Append(calls, Call("free_text", Text(transcription, NoDoc)))
                      /\ UNCHANGED <<report, status_code, detail>>
    /\ UNCHANGED <<transcription, response_text, valVars, reqVars>>

\* the free-text call whose exception is followed by the repair call
RawReturns_RepairsAfterError ==
    /\ pc = "await_raw"
    /\ \E o \in RawOutcomes :
          /\ replies' = Append(replies, o)
          /\ response_text' = o.text
          /\ LET r == IF o.kind = "error" THEN None ELSE parse_and_validate(o.text)
             IN  IF r # None
                 THEN /\ Return(r)
                      /\ UNCHANGED calls
                 ELSE /\ pc' = "await_fix"
                      /\ calls' = Append(calls, Call("repair", o.text))
                      /\ UNCHANGED <<report, status_code, detail>>
    /\ UNCHANGED <<transcription, valVars, reqVars>>

\* the free-text call ends: an exception becomes a 502; a text is parsed and
\* either returned or handed to the repair call
RawReturns ==
    /\ pc = "await_raw"
    /\ \E o \in RawOutcomes :
          /\ replies' = Append(replies, o)
          /\ IF o.kind = "error"
             THEN /\ ExceptException
                  /\ UNCHANGED <<calls, response_text>>
             ELSE /\ response_text' = o.text
                  /\ LET r == parse_and_validate(o.text)
                     IN  IF r # None
                         THEN /\ Return(r)
                              /\ UNCHANGED calls
                         ELSE /\ pc' = "await_fix"
                              /\ calls' = Append(calls, Call("repair", o.text))
                              /\ UNCHANGED <<report, status_code, detail>>
    /\ UNCHANGED <<transcription, valVars, reqVars>>

\* the repair step parsing response_text again instead of fixed_response
FixReturns_ParsesPrevious ==
    /\ pc = "await_fix"
    /\ \E o \in RawOutcomes :
          /\ replies' = Append(replies, o)
          /\ IF o.kind = "error"
             THEN ExceptException
             ELSE LET r == parse_and_validate(response_text)
                  IN  IF r # None THEN Return(r) ELSE RaiseAfterRetry
    /\ UNCHANGED <<transcription, response_text, calls, valVars, reqVars>>

\* the repair step asking for another repair when the repaired text fails
FixReturns_Retries ==
    /\ pc = "await_fix"
    /\ \E o \in RawOutcomes :
          /\ replies' = Append(replies, o)
          /\ IF o.kind = "error"
             THEN ExceptException /\ UNCHANGED calls
             ELSE LET r == parse_and_validate(o.text)
                  IN  IF r # None
                      THEN Return(r) /\ UNCHANGED calls
                      ELSE /\ calls' = Append(calls, Call("repair", o.text))
                           /\ UNCHANGED <<pc, report, status_code, detail>>
    /\ UNCHANGED <<transcription, response_text, valVars, reqVars>>

\* the repair step returning the repaired document although it failed
FixReturns_ReturnsInvalid ==
    /\ pc = "await_fix"
    /\ \E o \in RawOutcomes :
          /\ replies' = Append(replies, o)
          /\ IF o.kind = "error"
             THEN ExceptException
             ELSE LET r == parse_and_validate(o.text)
                  IN  IF r # None THEN Return(r) ELSE Return(o.text.doc.obj)
    /\ UNCHANGED <<transcription, response_text, calls, valVars, reqVars>>

\* the repair call ends: return its report, or give up with a 502
FixReturns ==
    /\ pc = "await_fix"
    /\ \E o \in RawOutcomes :
          /\ replies' = Append(replies, o)
          /\ IF o.kind = "error"
             THEN ExceptException
             ELSE LET r == parse_and_validate(o.text)
                  IN  IF r # None THEN Return(r) ELSE RaiseAfterRetry
    /\ UNCHANGED <<transcription, response_text, calls, valVars, reqVars>>

\* generate_report called on its own
InitGen ==
    /\ ValIdle
    /\ ReqIdle
    /\ pc = "generate_report"
    /\ transcription \in Transcripts
    /\ response_text = None
    /\ report = None
    /\ status_code = 0
    /\ detail = None
    /\ calls = <<>>
    /\ replies = <<>>

NextGen ==
    \/ GenerateReportEntry
    \/ StructuredReturns
    \/ RawReturns
    \/ FixReturns

SpecGen == InitGen /\ [][NextGen]_vars

(***************************************************************************)
(* The upload check of the router.                                         *)
(***************************************************************************)
\* max_upload_mb: int = 25
max_upload_mb == 25

\* Settings.max_upload_bytes
max_upload_bytes == max_upload_mb * 1024 * 1024

\* a content type is <<type with its slash, subtype>>, or <<>> when missing
ALLOWED_CONTENT_TYPES ==
    {<<"audio/", "mpeg">>, <<"audio/", "mp3">>, <<"audio/", "wav">>,
     <<"audio/", "wave">>, <<"audio/", "x-wav">>, <<"audio/", "webm">>,
     <<"audio/", "ogg">>, <<"audio/", "flac">>, <<"audio/", "m4a">>,
     <<"audio/", "x-m4a">>, <<"audio/", "mp4">>, <<"video/", "mp4">>,
     <<"video/", "webm">>, <<"video/", "ogg">>, <<"video/", "quicktime">>}

UploadFile(filename, content_type, size) ==
    [filename |-> filename, content_type |-> content_type, size |-> size]

\* validate_upload_file(file) raises HTTPException(422)
validate_upload_file_raises(f) ==
    \/ ~Truthy(f.filename)
    \/ ~(\/ startswith(f.content_type, <<"audio/">>)
         \/ startswith(f.content_type, <<"video/">>)
         \/ f.content_type \in ALLOWED_CONTENT_TYPES)
    \/ f.size = 0
    \/ f.size > max_upload_bytes

\* the detail of the HTTPException validate_upload_file(file) raises
validate_upload_file_detail(f) ==
    IF ~Truthy(f.filename)
    THEN Detail("No file provided")
    ELSE IF ~(\/ startswith(f.content_type, <<"audio/">>)
              \/ startswith(f.content_type, <<"video/">>)
              \/ f.content_type \in ALLOWED_CONTENT_TYPES)
    THEN FString("Invalid file type: {}. Must be audio or video.", "content_type",
                 f.content_type)
    ELSE IF f.size = 0
    THEN Detail("File is empty")
    ELSE FString("File too large. Maximum size: {}MB", "max_upload_mb", max_upload_mb)

\* the uploads a request may carry
Uploads ==
    {UploadFile(<<"f">>, <<"audio/", "mpeg">>, 1),
     UploadFile(<<"f">>, <<"video/", "x-other">>, max_upload_bytes),
     UploadFile(<<>>, <<"audio/", "mpeg">>, 1),
     UploadFile(<<"f">>, <<"text/", "plain">>, 1),
     UploadFile(<<"f">>, <<>>, 1),
     UploadFile(<<"f">>, <<"audio/", "mpeg">>, 0),
     UploadFile(<<"f">>, <<"audio/", "mpeg">>, max_upload_bytes + 1)}

(***************************************************************************)
(* ElevenLabsService.transcribe.                                           *)
(***************************************************************************)
\* the provider answers with a status and a text, or the call raises:
\* httpx.TimeoutException ("timeout"), another httpx.RequestError
\* ("request_error"), or an exception outside httpx ("raises")
TranscribeOutcomes ==
    {[kind |-> "timeout", status |-> 0, text |-> <<>>],
     [kind |-> "request_error", status |-> 0, text |-> <<>>],
     [kind |-> "raises", status |-> 0, text |-> <<>>],
     [kind |-> "response", status |-> 500, text |-> <<>>]}
    \cup {[kind |-> "response", status |-> 200, text |-> t] :
            t \in {<<>>, <<" ">>, <<"h", "i">>, <<" ", "y", "o">>}}

\* transcribe without the check of an empty transcript
transcribe_raises_StatusOnly(o) ==
    \/ o.kind # "response"
    \/ o.status # 200

\* transcribe raises HTTPException(502)
transcribe_raises(o) ==
    \/ o.kind # "response"
    \/ o.status # 200
    \/ ~Truthy(o.text)

\* the detail of the HTTPException transcribe raises; e is the exception of
\* a call that raised: a timeout is answered without the text of e
transcribe_detail(o, e) ==
    IF o.kind = "timeout"
    THEN Detail("ElevenLabs API request timed out")
    ELSE IF o.kind = "request_error"
    THEN FString("ElevenLabs API request failed: {}", "exception", str(e))
    ELSE IF o.kind = "raises"
    THEN FString("Transcription failed: {}", "exception", str(e))
    ELSE IF o.status # 200
    THEN FString("ElevenLabs transcription failed: {}", "status_code", o.status)
    ELSE Detail("ElevenLabs returned empty transcription")

\* get_evaluation_by_employee_id without its filter on employee_id
get_evaluation_by_employee_id_AnyEmployee(table, employee) ==
    IF table # {}
    THEN CHOOSE r \in table : TRUE
    ELSE None

(***************************************************************************)
(* EvaluationRepository, on the session of the request.  A flushed row is  *)
(* in the session until db.commit() writes it or db.rollback() drops it.   *)
(***************************************************************************)
\* get_evaluation_by_employee_id: the first row of the employee in the table,
\* or None
get_evaluation_by_employee_id(table, employee) ==
    IF \E r \in table : r.employee_id = employee
    THEN CHOOSE r \in table : r.employee_id = employee
    ELSE None

\* the table once the flushed row is committed: an inserted row is added, an
\* updated row replaces the row of the same id
Committed(table, row) == {r \in table : r.id # row.id} \cup {row}

\* create_evaluation: the new row as its INSERT is flushed; created_at and
\* updated_at get their server default now(), the start time of the
\* transaction
create_evaluation(id, employee, feedback, created_by, now) ==
    [id |-> id, employee_id |-> employee, feedback |-> feedback,
     created_by |-> created_by, updated_by |-> created_by,
     created_at |-> now, updated_at |-> now]

\* update_evaluation_feedback writing the audit field created_by as well
update_evaluation_feedback_OverwritesCreator(evaluation, feedback, updated_by, now) ==
    [evaluation EXCEPT !.feedback = feedback,
                       !.created_by = updated_by,
                       !.updated_by = IF updated_by # 0 THEN updated_by ELSE @,
                       !.updated_at = now]

\* update_evaluation_feedback: the row as the flush leaves it.  feedback
\* is assigned, and updated_by when it is given; the flush sends an UPDATE
\* only when an assigned value differs from the one loaded, and that UPDATE
\* sets updated_at as well (onupdate=func.now())
update_evaluation_feedback(evaluation, feedback, updated_by, now) ==
    LET assigned == [evaluation EXCEPT
                        !.feedback = feedback,
                        !.updated_by = IF updated_by # 0 THEN updated_by ELSE @]
    IN  IF assigned # evaluation
        THEN [assigned EXCEPT !.updated_at = now]
        ELSE evaluation

\* get_or_create_evaluation inserting a row whether or not one exists
get_or_create_evaluation_AlwaysCreates(existing, id, employee, feedback, user_id, now) ==
    <<create_evaluation(id, employee, feedback, user_id, now), TRUE>>

\* get_or_create_evaluation: <<the row, was_created>>; existing is the row
\* get_evaluation_by_employee_id found, or None; now is the start time of
\* the session's transaction
get_or_create_evaluation(existing, id, employee, feedback, user_id, now) ==
    IF existing # None
    THEN <<update_evaluation_feedback(existing, feedback, user_id, now), FALSE>>
    ELSE <<create_evaluation(id, employee, feedback, user_id, now), TRUE>>

\* create_evaluation_report: the new row as its INSERT is flushed
create_evaluation_report(id, evaluation_id, body, created_by, now) ==
    [id |-> id, employee_evaluation_id |-> evaluation_id, report |-> body,
     created_by |-> created_by, updated_by |-> created_by,
     created_at |-> now, updated_at |-> now]

\* get_reports_for_evaluation: the rows of the evaluation ordered by
\* created_at, newest first; rows of equal created_at come in any order, so
\* this is the set of the lists the query may return
get_reports_for_evaluation(table, evaluation_id) ==
    LET rows == {table[i] : i \in {j \in 1..Len(table) :
                                     table[j].employee_evaluation_id = evaluation_id}}
        n == Cardinality(rows)
    IN  {l \in [1..n -> rows] :
            /\ \A i, j \in 1..n : i # j => l[i] # l[j]
            /\ \A i, j \in 1..n : i < j => l[i].created_at >= l[j].created_at}

\* db.rollback()
Rollback ==
    /\ sess_evaluation' = None
    /\ sess_report' = None

(***************************************************************************)
(* token_required and validate_token.                                      *)
(***************************************************************************)
\* the Authorization header a request presents: none, a bearer credential
\* the identity provider would reject, one it would accept
Authorizations ==
    {[header |-> "missing"], [header |-> "Bearer invalid"], [header |-> "Bearer valid"]}

\* the token written in token_required
EmbeddedToken == [header |-> "embedded"]

\* how validate_token ends for a token that is not empty, as the identity
\* provider, the time and the employee table decide, in the order of the
\* code: the HTTPExceptions of get_openid_config and of the JWKS lookup, of
\* the header and the key, the exceptions of jwt.decode, the checks of the
\* decoded claims, the employee query, and at last the payload
Unauthorized ==
    {"no_kid", "key_not_found", "expired_signature", "invalid_token",
     "wrong_app_or_tenant", "exp_passed", "no_unique_name", "no_employee"}

ServerErrors == {"no_config_url", "config_fetch_failed", "no_jwks_uri", "exception"}

TokenOutcomes == {"payload"} \cup Unauthorized \cup ServerErrors

\* get_employee_by_email has run: the first statement of the request's
\* session, which begins its transaction
EmployeeQueried(outcome) == outcome \in {"payload", "no_employee"}

\* validate_token(token, db): the payload when user_id is set, else the
\* status of the HTTPException raised
validate_token(token, outcome, employee) ==
    IF token = None THEN [user_id |-> 0, status_code |-> 401]
    ELSE IF outcome = "payload" THEN [user_id |-> employee, status_code |-> 0]
    ELSE IF outcome \in Unauthorized THEN [user_id |-> 0, status_code |-> 401]
    ELSE [user_id |-> 0, status_code |-> 500]

\* the detail of the HTTPException validate_token raises: each raise has
\* its own text; only "except jwt.InvalidTokenError as e" and "except
\* Exception as e" carry str(e)
validate_token_detail(token, outcome, e) ==
    IF token = None THEN Detail("Authentication Token is missing!")
    ELSE IF outcome = "no_config_url" THEN Detail("OIDC configuration URL not set")
    ELSE IF outcome = "config_fetch_failed" THEN Detail("Failed to fetch OpenID config")
    ELSE IF outcome = "no_jwks_uri" THEN Detail("JWKS URI missing in OIDC config")
    ELSE IF outcome = "no_kid" THEN Detail("Invalid token: Missing Key ID (kid)")
    ELSE IF outcome = "key_not_found" THEN Detail("Invalid token: Key not found in JWKS")
    ELSE IF outcome = "expired_signature" THEN Detail("Token has expired")
    ELSE IF outcome = "invalid_token"
    THEN FString("Token validation failed: {}", "exception", str(e))
    ELSE IF outcome = "wrong_app_or_tenant"
    THEN Detail("Invalid token: Unauthorized app or tenant")
    ELSE IF outcome = "exp_passed" THEN Detail("Authentication Token Has Expired!")
    ELSE IF outcome = "no_unique_name" THEN Detail("Invalid Token: unique_name missing")
    ELSE IF outcome = "no_employee" THEN Detail("Invalid Token")
    ELSE FString("Authentication error: {}", "exception", str(e))

\* token_required(authorization, db): the header check is commented out and
\* the token validated is the embedded one, whatever the header
token_required(header, outcome, employee) ==
    validate_token(EmbeddedToken, outcome, employee)

(***************************************************************************)
(* create_evaluation_report of the router: one request after the other.    *)
(***************************************************************************)
\* except Exception as e: raise HTTPException(500, ...) of the router
InternalServerError(e) == FString("Internal server error: {}", "exception", str(e))

\* a request arrives with its header and its upload, and get_db gives it a
\* session; token_required has not run yet
ReceiveRequest ==
    /\ pc = "idle"
    /\ nreq < MaxRequests
    /\ \E a \in Authorizations, f \in Uploads :
          /\ authorization' = a
          /\ file' = f
    /\ pc' = "token_required"
    /\ nreq' = nreq + 1
    /\ session_open' = TRUE
    /\ snapshot' = [evaluation |-> db_evaluation, reports |-> db_reports,
                    next_id |-> next_id]
    /\ UNCHANGED <<transcription, response_text, report, status_code, detail, calls,
                   replies, employee_id, actor_id, sess_evaluation, sess_report,
                   was_created, http_status, db_evaluation, db_reports, next_id, clock,
                   workers, outcomes, valVars>>

\* token_required runs on the session of the request: the token is
\* validated against the identity provider and its employee looked up.  The
\* employee query is the first statement of the session and begins its
\* transaction, the one the handler goes on in.  An HTTPException is the
\* answer of the request; the handler does not run.
TokenRequired ==
    /\ pc = "token_required"
    /\ \E t \in TokenOutcomes, e \in Employees, x \in Exceptions :
          LET payload == token_required(authorization, t, e)
          IN  /\ clock' = IF EmployeeQueried(t) THEN clock + 1 ELSE clock
              /\ IF payload.status_code # 0
                 THEN /\ employee_id' = 0
                      /\ pc' = "responded"
                      /\ http_status' = payload.status_code
                      /\ detail' = validate_token_detail(EmbeddedToken, t, x)
                 ELSE /\ employee_id' = payload.user_id
                      /\ pc' = "create_evaluation_report"
                      /\ UNCHANGED <<http_status, detail>>
    /\ UNCHANGED <<transcription, response_text, report, status_code, calls, replies,
                   nreq, authorization, actor_id, file, session_open, sess_evaluation,
                   sess_report, was_created, db_evaluation, db_reports, next_id,
                   snapshot, workers, outcomes, valVars>>

\* the handler starts: the upload is checked before the try block, and the
\* transcriber is called with an upload that passes
ValidateUploadFile ==
    /\ pc = "create_evaluation_report"
    /\ IF validate_upload_file_raises(file)
       THEN /\ pc' = "responded"
            /\ http_status' = 422
            /\ detail' = validate_upload_file_detail(file)
       ELSE /\ pc' = "await_transcribe"
            /\ UNCHANGED <<http_status, detail>>
    /\ UNCHANGED <<transcription, response_text, report, status_code, calls, replies,
                   nreq, authorization, employee_id, actor_id, file, session_open,
                   sess_evaluation, sess_report, was_created, db_evaluation, db_reports,
                   next_id, snapshot, clock, workers, outcomes, valVars>>

\* the transcriber ends: a failure is rolled back and raised again; a
\* transcript is upserted in the transaction the employee query began, and
\* generate_report is called; an upsert that raises (the storage server
\* fails the query or the flush) is rolled back and answered with a 500
TranscribeReturns ==
    /\ pc = "await_transcribe"
    /\ \E o \in TranscribeOutcomes, upsert_ok \in BOOLEAN, x \in Exceptions :
          IF transcribe_raises(o)
          THEN /\ upsert_ok
               /\ Rollback
               /\ pc' = "responded"
               /\ http_status' = 502
               /\ detail' = transcribe_detail(o, x)
               /\ UNCHANGED <<transcription, actor_id, was_created, next_id>>
          ELSE IF ~upsert_ok
          THEN /\ transcription' = o.text
               /\ Rollback
               /\ pc' = "responded"
               /\ http_status' = 500
               /\ detail' = InternalServerError(x)
               /\ actor_id' = employee_id
               /\ UNCHANGED <<was_created, next_id>>
          ELSE LET got == get_or_create_evaluation(
                                get_evaluation_by_employee_id(db_evaluation, employee_id), next_id,
                                                   employee_id, o.text, employee_id, clock)
               IN  /\ transcription' = o.text
                   /\ actor_id' = employee_id
                   /\ sess_evaluation' = got[1]
                   /\ was_created' = got[2]
                   /\ next_id' = IF got[2] THEN next_id + 1 ELSE next_id
                   /\ pc' = "generate_report"
                   /\ UNCHANGED <<sess_report, http_status, detail>>
    /\ UNCHANGED <<response_text, report, status_code, calls, replies, nreq,
                   authorization, employee_id, file, session_open, db_evaluation, db_reports,
                   snapshot, clock, workers, outcomes, valVars>>

\* how the steps after generate_report may end
StoreOutcomes == {"ok", "append_raises", "commit_raises", "response_raises"}

\* StoreReport keeping only the newest report of the history
StoreReport_ReplacesHistory ==
    /\ pc = "returned"
    /\ session_open
    /\ LET row == create_evaluation_report(next_id, sess_evaluation.id, report,
                                           employee_id, clock)
       IN  \E outcome \in StoreOutcomes, x \in Exceptions :
              /\ IF outcome \in {"ok", "response_raises"}
                 THEN /\ db_evaluation' = Committed(db_evaluation, sess_evaluation)
                      /\ db_reports' = <<row>>
                 ELSE UNCHANGED <<db_evaluation, db_reports>>
              /\ next_id' = IF outcome \in {"ok", "response_raises"}
                            THEN next_id + 1
                            ELSE snapshot.next_id
              /\ clock' = IF outcome \in {"ok", "response_raises"}
                          THEN clock + 1
                          ELSE clock
              /\ http_status' = IF outcome = "ok" THEN 200 ELSE 500
              /\ detail' = IF outcome = "ok" THEN None ELSE InternalServerError(x)
    /\ Rollback
    /\ pc' = "responded"
    /\ UNCHANGED <<transcription, response_text, report, status_code, calls, replies,
                   nreq, authorization, employee_id, actor_id, file, session_open, was_created, snapshot,
                   workers, outcomes, valVars>>

\* generate_report returned: the report row is added, the session committed
\* and the response built.  Each of the three may raise: before the commit
\* has taken effect the session is rolled back; after it, the attributes
\* read for the log and the response are loaded again in a new transaction,
\* and db.rollback() finds nothing to undo.  Either way the answer is a 500.
StoreReport ==
    /\ pc = "returned"
    /\ session_open
    /\ LET row == create_evaluation_report(next_id, sess_evaluation.id, report,
                                           employee_id, clock)
       IN  \E outcome \in StoreOutcomes, x \in Exceptions :
              /\ IF outcome \in {"ok", "response_raises"}
                 THEN /\ db_evaluation' = Committed(db_evaluation, sess_evaluation)
                      /\ db_reports' = Append(db_reports, row)
                 ELSE UNCHANGED <<db_evaluation, db_reports>>
              /\ next_id' = IF outcome \in {"ok", "response_raises"}
                            THEN next_id + 1
                            ELSE snapshot.next_id
              /\ clock' = IF outcome \in {"ok", "response_raises"}
                          THEN clock + 1
                          ELSE clock
              /\ http_status' = IF outcome = "ok" THEN 200 ELSE 500
              /\ detail' = IF outcome = "ok" THEN None ELSE InternalServerError(x)
    /\ Rollback
    /\ pc' = "responded"
    /\ UNCHANGED <<transcription, response_text, report, status_code, calls, replies,
                   nreq, authorization, employee_id, actor_id, file, session_open, was_created, snapshot,
                   workers, outcomes, valVars>>

\* the handler of HTTPException committing the session instead of rolling back
HandleHTTPException_Commits ==
    /\ pc = "raised"
    /\ session_open
    /\ db_evaluation' = Committed(db_evaluation, sess_evaluation)
    /\ Rollback
    /\ http_status' = status_code
    /\ pc' = "responded"
    /\ UNCHANGED <<transcription, response_text, report, status_code, detail, calls, replies,
                   nreq, authorization, employee_id, actor_id, file, session_open, was_created,
                   db_reports, next_id, snapshot, clock, workers, outcomes, valVars>>

\* generate_report raised: except HTTPException: db.rollback(); raise
HandleHTTPException ==
    /\ pc = "raised"
    /\ session_open
    /\ Rollback
    /\ next_id' = snapshot.next_id
    /\ http_status' = status_code
    /\ pc' = "responded"
    /\ UNCHANGED <<transcription, response_text, report, status_code, detail, calls, replies,
                   nreq, authorization, employee_id, actor_id, file, session_open, was_created, db_evaluation,
                   db_reports, snapshot, clock, workers, outcomes, valVars>>

\* get_db closing the session only after a request that succeeded
CloseSession_OnlyOnSuccess ==
    /\ pc = "responded"
    /\ session_open' = (http_status # 200)
    /\ pc' = "idle"
    /\ transcription' = <<>>
    /\ response_text' = None
    /\ report' = None
    /\ status_code' = 0
    /\ detail' = None
    /\ calls' = <<>>
    /\ replies' = <<>>
    /\ authorization' = None
    /\ employee_id' = 0
    /\ actor_id' = 0
    /\ file' = None
    /\ was_created' = FALSE
    /\ http_status' = 0
    /\ snapshot' = None
    /\ Rollback
    /\ outcomes' = IF http_status = 200
                   THEN Append(outcomes, [employee_id |-> employee_id,
                                          transcription |-> transcription])
                   ELSE outcomes
    /\ UNCHANGED <<nreq, db_evaluation, db_reports, next_id, clock, workers, valVars>>

\* the response is sent and get_db closes the session; the request is over
CloseSession ==
    /\ pc = "responded"
    /\ session_open' = FALSE
    /\ pc' = "idle"
    /\ transcription' = <<>>
    /\ response_text' = None
    /\ report' = None
    /\ status_code' = 0
    /\ detail' = None
    /\ calls' = <<>>
    /\ replies' = <<>>
    /\ authorization' = None
    /\ employee_id' = 0
    /\ actor_id' = 0
    /\ file' = None
    /\ was_created' = FALSE
    /\ http_status' = 0
    /\ snapshot' = None
    /\ Rollback
    /\ outcomes' = IF http_status = 200
                   THEN Append(outcomes, [employee_id |-> employee_id,
                                          transcription |-> transcription])
                   ELSE outcomes
    /\ UNCHANGED <<nreq, db_evaluation, db_reports, next_id, clock, workers, valVars>>

Init ==
    /\ ValIdle
    /\ GenIdle
    /\ ReqIdle

Next ==
    \/ ReceiveRequest
    \/ TokenRequired
    \/ ValidateUploadFile
    \/ TranscribeReturns
    \/ GenerateReportEntry
    \/ StructuredReturns
    \/ RawReturns
    \/ FixReturns
    \/ StoreReport
    \/ HandleHTTPException
    \/ CloseSession

Spec == Init /\ [][Next]_vars

\* A request that has been received completes: token_required returns or
\* raises (its calls of the identity provider carry timeouts), the call of
\* the transcriber returns or raises (it carries a timeout), each call of
\* the model is taken to return or raise (ChatAnthropic is built without a
\* timeout of its own), the handler's own steps do not block, and the
\* framework runs the rest of get_db once the response is sent.  Whether a
\* further request arrives is up to the callers.
RequestRunsToItsEnd ==
    /\ WF_vars(TokenRequired)
    /\ WF_vars(ValidateUploadFile)
    /\ WF_vars(TranscribeReturns)
    /\ WF_vars(GenerateReportEntry)
    /\ WF_vars(StructuredReturns)
    /\ WF_vars(RawReturns)
    /\ WF_vars(FixReturns)
    /\ WF_vars(StoreReport)
    /\ WF_vars(HandleHTTPException)
    /\ WF_vars(CloseSession)

SpecLive == Spec /\ RequestRunsToItsEnd

(***************************************************************************)
(* Concurrent requests.  Each request in flight has its own session and    *)
(* runs create_evaluation_report in a worker of its own; the workers meet  *)
(* in the storage server, which runs each session's transaction at its     *)
(* default isolation level, read committed:                                *)
(*   - a query sees the rows committed when it runs;                       *)
(*   - an UPDATE locks its row until the transaction ends, and a second    *)
(*     UPDATE of the row waits for that;                                   *)
(*   - an INSERT that meets an uncommitted row with the same employee_id   *)
(*     waits for that transaction to end, and fails on the unique          *)
(*     constraint uq_employee_evaluation_employee_id when the row is       *)
(*     committed.                                                          *)
(* The session flushes an UPDATE only for attributes whose value differs   *)
(* from the one it loaded.                                                 *)
(***************************************************************************)
Workers == 1..MaxWorkers

\* the record of a worker that serves no request
WorkerIdle ==
    [pc |-> "idle", employee_id |-> 0, transcription |-> <<>>, existing |-> None,
     evaluation |-> None, wrote |-> FALSE, started_at |-> 0, status |-> 0,
     commit_seq |-> 0]

\* the transcripts of concurrent requests
ConcurrentTranscripts == {<<"h", "i">>, <<"y", "o">>}

\* what generate_report does in a concurrent request: return a report or
\* raise HTTPException(502)
GenerateOutcomes == {"report", "raises"}

\* the report generate_report returns in a concurrent request
ConcurrentReport == model_validate(GoodDoc)

\* worker w is inside the transaction of its writes: from the employee
\* query of token_required to the commit or the rollback, so also while the
\* transcriber is awaited (the transaction of the reads after the commit
\* writes nothing and holds no lock)
InTransaction(w) == workers[w].pc \in {"create_evaluation_report", "await_transcribe",
                                        "flush", "await_generate"}

\* another session holds the lock of the evaluation row `id`
RowLocked(w, id) ==
    \E v \in Workers \ {w} :
        /\ InTransaction(v)
        /\ workers[v].wrote
        /\ workers[v].evaluation.id = id

\* another session holds an uncommitted row of the employee
InsertPending(w, employee) ==
    \E v \in Workers \ {w} :
        /\ InTransaction(v)
        /\ workers[v].wrote
        /\ workers[v].evaluation.employee_id = employee

\* the variables a concurrent request leaves alone
conFrame ==
    <<valVars, genVars, nreq, authorization, employee_id, actor_id, file, session_open,
      sess_evaluation, sess_report, was_created, http_status, snapshot, outcomes>>

\* a request arrives and get_db gives it a session
WReceive(w) ==
    /\ workers[w].pc = "idle"
    /\ workers' = [workers EXCEPT ![w] = [WorkerIdle EXCEPT !.pc = "token_required"]]
    /\ UNCHANGED <<db_evaluation, db_reports, next_id, clock, conFrame>>

\* token_required gives the employee of the request; its employee query
\* begins the transaction of the session, whose start time the rows the
\* request inserts get as created_at
WTokenRequired(w) ==
    /\ workers[w].pc = "token_required"
    /\ \E e \in Employees :
          LET payload == token_required(None, "payload", e)
          IN  workers' = [workers EXCEPT ![w].pc = "create_evaluation_report",
                                        ![w].employee_id = payload.user_id,
                                        ![w].started_at = clock + 1]
    /\ clock' = clock + 1
    /\ UNCHANGED <<db_evaluation, db_reports, next_id, conFrame>>

\* the handler starts: the upload passes validate_upload_file and the
\* transcriber is called
WValidateUploadFile(w) ==
    /\ workers[w].pc = "create_evaluation_report"
    /\ workers' = [workers EXCEPT ![w].pc = "await_transcribe"]
    /\ UNCHANGED <<db_evaluation, db_reports, next_id, clock, conFrame>>

\* the transcriber ends: on a failure the session is rolled back and the
\* request answered with 502; on a transcript get_or_create_evaluation
\* begins with its query (get_evaluation_by_employee_id), which sees the
\* rows committed when it runs
WSelect(w) ==
    /\ workers[w].pc = "await_transcribe"
    /\ \/ workers' = [workers EXCEPT ![w].pc = "done", ![w].status = 502]
       \/ \E t \in ConcurrentTranscripts :
             workers' = [workers EXCEPT
                 ![w].pc = "flush",
                 ![w].transcription = t,
                 ![w].existing =
                     get_evaluation_by_employee_id(db_evaluation, workers[w].employee_id)]
    /\ UNCHANGED <<db_evaluation, db_reports, next_id, clock, conFrame>>

\* the flush of get_or_create_evaluation on a table without the unique
\* constraint on employee_id
WFlush_NoUniqueConstraint(w) ==
    /\ workers[w].pc = "flush"
    /\ LET me == workers[w]
           updated == update_evaluation_feedback(me.existing, me.transcription,
                                                 me.employee_id, me.started_at)
       IN  IF me.existing # None
           THEN /\ updated # me.existing => ~RowLocked(w, me.existing.id)
                /\ workers' = [workers EXCEPT ![w].pc = "await_generate",
                                              ![w].evaluation = updated,
                                              ![w].wrote = (updated # me.existing)]
                /\ UNCHANGED next_id
           ELSE /\ workers' = [workers EXCEPT
                       ![w].pc = "await_generate",
                       ![w].evaluation = create_evaluation(next_id, me.employee_id,
                                                           me.transcription, me.employee_id,
                                                           me.started_at),
                       ![w].wrote = TRUE]
                /\ next_id' = next_id + 1
    /\ UNCHANGED <<db_evaluation, db_reports, clock, conFrame>>

\* get_or_create_evaluation goes on after its query: the row found gets the
\* new feedback, and the flush sends an UPDATE when that changed the row,
\* waiting while another session holds the row; when no row was found a new
\* one is flushed, which waits for an uncommitted row of the same employee
\* and raises IntegrityError (answered with 500) when a committed one exists
WFlush(w) ==
    /\ workers[w].pc = "flush"
    /\ LET me == workers[w]
           updated == update_evaluation_feedback(me.existing, me.transcription,
                                                 me.employee_id, me.started_at)
       IN  IF me.existing # None
           THEN /\ updated # me.existing => ~RowLocked(w, me.existing.id)
                /\ workers' = [workers EXCEPT ![w].pc = "await_generate",
                                              ![w].evaluation = updated,
                                              ![w].wrote = (updated # me.existing)]
                /\ UNCHANGED next_id
           ELSE IF \E r \in db_evaluation : r.employee_id = me.employee_id
           THEN /\ workers' = [workers EXCEPT ![w].pc = "done", ![w].status = 500]
                /\ UNCHANGED next_id
           ELSE /\ ~InsertPending(w, me.employee_id)
                /\ workers' = [workers EXCEPT
                       ![w].pc = "await_generate",
                       ![w].evaluation = create_evaluation(next_id, me.employee_id,
                                                           me.transcription, me.employee_id,
                                                           me.started_at),
                       ![w].wrote = TRUE]
                /\ next_id' = next_id + 1
    /\ UNCHANGED <<db_evaluation, db_reports, clock, conFrame>>

\* generate_report ends: when it raised, the session is rolled back and the
\* request answered with 502; when it returned, the report row is added and
\* the session committed, which ends the transaction and releases its
\* locks; an append or a commit that raises is rolled back and answered
\* with 500
WGenerateReturns(w) ==
    /\ workers[w].pc = "await_generate"
    /\ LET me == workers[w]
           row == create_evaluation_report(next_id, me.evaluation.id, ConcurrentReport,
                                           me.employee_id, me.started_at)
       IN  \E g \in GenerateOutcomes, outcome \in {"ok", "append_raises", "commit_raises"} :
              IF g = "raises"
              THEN /\ outcome = "ok"
                   /\ workers' = [workers EXCEPT ![w].pc = "done", ![w].status = 502,
                                                 ![w].evaluation = None,
                                                 ![w].wrote = FALSE]
                   /\ UNCHANGED <<db_evaluation, db_reports, next_id>>
              ELSE IF outcome = "ok"
              THEN /\ db_evaluation' = IF me.wrote
                                       THEN Committed(db_evaluation, me.evaluation)
                                       ELSE db_evaluation
                   /\ db_reports' = Append(db_reports, row)
                   /\ next_id' = next_id + 1
                   /\ workers' = [workers EXCEPT
                          ![w].pc = "committed",
                          ![w].commit_seq = Len(db_reports) + 1]
              ELSE /\ workers' = [workers EXCEPT ![w].pc = "done", ![w].status = 500,
                                                 ![w].evaluation = None,
                                                 ![w].wrote = FALSE]
                   /\ UNCHANGED <<db_evaluation, db_reports, next_id>>
    /\ UNCHANGED <<clock, conFrame>>

\* after the commit the handler reads evaluation.id and report_record.id,
\* which the commit expired: they are loaded again in a new transaction of
\* the session; then the response is built, and an exception in that is
\* answered with 500 while the rows stay committed
WRespond(w) ==
    /\ workers[w].pc = "committed"
    /\ \E outcome \in {"ok", "response_raises"} :
          workers' = [workers EXCEPT
              ![w].pc = "done",
              ![w].status = IF outcome = "ok" THEN 200 ELSE 500]
    /\ clock' = clock + 1
    /\ UNCHANGED <<db_evaluation, db_reports, next_id, conFrame>>

\* committed storage after one request of employee 1 was served: its
\* transaction began at 1, the one of its reads after the commit at 2
StorageAfterOneRequest ==
    LET ev == create_evaluation(1, 1, <<"h", "i">>, 1, 1)
    IN  [evaluation |-> {ev},
         reports |-> <<create_evaluation_report(2, ev.id, ConcurrentReport, 1, 1)>>,
         next_id |-> 3,
         clock |-> 2]

\* concurrent requests start on empty storage or on storage that holds the
\* record of an earlier request
InitConcurrent ==
    /\ ValIdle
    /\ GenIdle
    /\ nreq = 0
    /\ authorization = None
    /\ employee_id = 0
    /\ actor_id = 0
    /\ file = None
    /\ session_open = FALSE
    /\ sess_evaluation = None
    /\ sess_report = None
    /\ was_created = FALSE
    /\ http_status = 0
    /\ snapshot = None
    /\ outcomes = <<>>
    /\ workers = [w \in Workers |-> WorkerIdle]
    /\ \E init \in {[evaluation |-> {}, reports |-> <<>>, next_id |-> 1, clock |-> 0],
                    StorageAfterOneRequest} :
          /\ db_evaluation = init.evaluation
          /\ db_reports = init.reports
          /\ next_id = init.next_id
          /\ clock = init.clock

NextConcurrent ==
    \E w \in Workers :
        \/ WReceive(w)
        \/ WTokenRequired(w)
        \/ WValidateUploadFile(w)
        \/ WSelect(w)
        \/ WFlush(w)
        \/ WGenerateReturns(w)
        \/ WRespond(w)

SpecConcurrent == InitConcurrent /\ [][NextConcurrent]_vars

(***************************************************************************)
(* The EvaluationReport contract, stated on its own (not through the       *)
(* validation operators): what the properties below compare the code with. *)
(***************************************************************************)
\* every level of d has exactly the fields of the EvaluationReport shape
HasReportShape(d) ==
    /\ DOMAIN d = EvaluationReportSchemaFields
    /\ DOMAIN d["criteria"] = EvaluationCriteriaFields
    /\ \A c \in EvaluationCriteriaFields : DOMAIN d["criteria"][c] = CriteriaItemFields
    /\ \A i \in 1..Len(d["action_plan"]) : DOMAIN d["action_plan"][i] = ActionPlanItemFields

\* the scores d carries
ScoresOf(d) ==
    (IF "overall_score" \in DOMAIN d THEN {d["overall_score"]} ELSE {})
    \cup {d["criteria"][c]["score"] :
            c \in {x \in EvaluationCriteriaFields :
                     HasCriterion(d, x) /\ "score" \in DOMAIN d["criteria"][x]}}

AllScoresInRange(d) == \A s \in ScoresOf(d) : s \in 0..100

\* a list d carries whose length is outside its bounds
HasIllegalLength(d) ==
    \/ \E f \in StrListFields : HasList(d, f) /\ Len(d[f]) \notin 1..10
    \/ HasList(d, "action_plan") /\ Len(d["action_plan"]) \notin 1..7

IsBlank(s) == \A i \in 1..Len(s) : s[i] \in {" ", "\n", "\t"}

\* a string list of d all of whose entries are blank
HasAllBlankList(d) ==
    \E f \in StrListFields : HasList(d, f) /\ \A i \in 1..Len(d[f]) : IsBlank(d[f][i])

\* a string list of d with a blank entry
HasBlankEntry(d) ==
    \E f \in StrListFields : HasList(d, f) /\ \E i \in 1..Len(d[f]) : IsBlank(d[f][i])

\* summary, overall_band, a criterion's band or notes, or a string of an
\* action-plan item is blank
HasBlankString(d) ==
    \/ \E f \in {"summary", "overall_band"} \cap DOMAIN d : IsBlank(d[f])
    \/ \E c \in EvaluationCriteriaFields :
          /\ HasCriterion(d, c)
          /\ \E f \in {"band", "notes"} \cap DOMAIN d["criteria"][c] :
                IsBlank(d["criteria"][c][f])
    \/ /\ HasList(d, "action_plan")
       /\ \E i \in 1..Len(d["action_plan"]) :
             \E f \in ActionPlanItemFields \cap DOMAIN d["action_plan"][i] :
                IsBlank(d["action_plan"][i][f])

Validated == verdict # Pending
Accepted == Validated /\ verdict # ValidationError
Rejected == verdict = ValidationError

\* the candidate is a valid report with one edit of kind op
SingleEdit(op) ==
    /\ Len(edits) = 1
    /\ edits[1].op = op
    /\ HasReportShape(base) /\ AllScoresInRange(base) /\ ~HasIllegalLength(base)
    /\ ~HasBlankEntry(base)

(***************************************************************************)
(* C7 as claimed.  Validation accepts every object that has the            *)
(* EvaluationReport shape, all scores in 0..100 and legal list lengths,    *)
(* and rejects every object made from such an object by removing one       *)
(* required field.                                                         *)
(***************************************************************************)
C7_AcceptsEveryShapedObject ==
    Validated =>
        /\ (HasReportShape(cand.obj) /\ AllScoresInRange(cand.obj)
              /\ ~HasIllegalLength(cand.obj)) => Accepted
        /\ SingleEdit("remove") => Rejected

(***************************************************************************)
(* C7 as amended.  Validation accepts every object that has the            *)
(* EvaluationReport shape, all scores in 0..100, legal list lengths and no *)
(* string or list entry that is blank after trimming; it rejects every     *)
(* object made from a valid report by removing one required field (a       *)
(* top-level field, a criterion, a field of a criterion or of an           *)
(* action-plan item).                                                      *)
(***************************************************************************)
C7_AcceptsValidRejectsMissingField ==
    Validated =>
        /\ (HasReportShape(cand.obj) /\ AllScoresInRange(cand.obj)
              /\ ~HasIllegalLength(cand.obj)
              /\ ~HasBlankEntry(cand.obj) /\ ~HasBlankString(cand.obj)) => Accepted
        /\ SingleEdit("remove") => Rejected

\* C7's case: a valid report that lost a field of one criterion was rejected
C7_Witness ==
    /\ SingleEdit("remove")
    /\ edits[1].at = "criterion"
    /\ Rejected

(***************************************************************************)
(* C8 as claimed.  Adding any extra field to a valid report object (at top *)
(* level, inside criteria, inside a criterion or an action-plan item)      *)
(* makes validation fail.                                                  *)
(***************************************************************************)
C8_ExtraFieldRejected ==
    (Validated /\ SingleEdit("extra")) => Rejected

(***************************************************************************)
(* C11 as claimed.  In every report that passes validation overall_band is *)
(* one of Poor, Average, Good, Excellent; a valid report whose             *)
(* overall_band is set to any other string is rejected.                    *)
(***************************************************************************)
C11_BandIsOneOfFour ==
    /\ Accepted => verdict.overall_band \in Bands
    /\ (Validated /\ SingleEdit("band") /\ edits[1].str \notin Bands) => Rejected

(***************************************************************************)
(* C9.  Validation rejects every candidate with overall_score or a         *)
(* criterion score outside 0..100, with strengths or improvement_areas of  *)
(* fewer than 1 or more than 10 items, or with action_plan of fewer than 1 *)
(* or more than 7 items; a valid report whose scores are set to 0 or 100   *)
(* and whose lists are resized to 1, 10 (string lists) or 1, 7 (action     *)
(* plan) items is accepted.                                                *)
(***************************************************************************)
BoundaryEdit(e) ==
    \/ e.op = "score" /\ e.num \in {0, 100}
    \/ e.op = "length" /\ e.field \in StrListFields /\ e.num \in {1, 10}
    \/ e.op = "length" /\ e.field = "action_plan" /\ e.num \in {1, 7}

C9_RangeAndLengthBounds ==
    Validated =>
        /\ (~AllScoresInRange(cand.obj) \/ HasIllegalLength(cand.obj)) => Rejected
        /\ (edits # <<>> /\ \A i \in 1..Len(edits) : BoundaryEdit(edits[i])) => Accepted

\* C9's case: a criterion score of 101 in an otherwise valid report was rejected
C9_Witness ==
    /\ SingleEdit("score")
    /\ edits[1].at = "criterion"
    /\ edits[1].num = 101
    /\ Rejected

(***************************************************************************)
(* C10 as claimed.  Validation rejects every candidate in which summary,   *)
(* overall_band, a criterion's band or notes, or focus, what_to_improve,   *)
(* why_it_matters or how_to_improve of an action-plan item is blank after  *)
(* trimming.                                                               *)
(***************************************************************************)
C10_BlankStringRejected ==
    (Validated /\ HasBlankString(cand.obj)) => Rejected

(***************************************************************************)
(* What the model answered, read from the history of one generate_report.  *)
(***************************************************************************)
\* the text is a JSON document once the code block markers are removed
Parses(text) ==
    json_loads(StripCodeBlock(text.chars), text.doc) # JSONDecodeError

\* the document meets the EvaluationReport contract
Validates(doc) ==
    /\ doc.kind = "object"
    /\ EvaluationReportSchemaFields \subseteq DOMAIN doc.obj
    /\ HasReportShape(doc.obj)
    /\ AllScoresInRange(doc.obj)
    /\ ~HasIllegalLength(doc.obj)
    /\ ~HasAllBlankList(doc.obj)

\* the i-th model call was answered, and with a report
Answered(i) == Len(replies) >= i
Succeeded(i) ==
    /\ Answered(i)
    /\ replies[i].kind # "error"
    /\ Parses(replies[i].text)
    /\ Validates(replies[i].text.doc)
Failed(i) == Answered(i) /\ ~Succeeded(i)

\* the tiers called so far, in order
Tiers == [i \in 1..Len(calls) |-> calls[i].tier]

\* the report meets the contract: scores, criteria, list lengths
SatisfiesContract(r) ==
    /\ HasReportShape(r)
    /\ AllScoresInRange(r)
    /\ ~HasIllegalLength(r)

(***************************************************************************)
(* C1.  For an empty or whitespace-only transcript generate_report raises  *)
(* HTTP 422 at once and calls the model zero times.                        *)
(***************************************************************************)
C1_BlankTranscriptNoModelCall ==
    IsBlank(transcription) =>
        /\ calls = <<>> /\ replies = <<>>
        /\ pc \in {"generate_report", "raised"}
        /\ pc = "raised" => status_code = 422

\* C1's case: a whitespace-only transcript was refused
C1_Witness ==
    /\ transcription # <<>> /\ IsBlank(transcription)
    /\ pc = "raised" /\ status_code = 422

(***************************************************************************)
(* C2.  The ladder short-circuits: a tier is called only after every       *)
(* earlier tier failed; a structured success is returned with no free-text *)
(* and no repair call; after a structured failure a free-text success is   *)
(* returned with no repair call.                                           *)
(***************************************************************************)
C2_ShortCircuit ==
    /\ \A i \in 2..Len(calls) : Failed(i - 1)
    /\ Succeeded(1) =>
          /\ pc = "returned"
          /\ report = model_validate(replies[1].text.doc)
          /\ Tiers = <<"structured">>
    /\ (Failed(1) /\ Succeeded(2)) =>
          /\ pc = "returned"
          /\ report = model_validate(replies[2].text.doc)
          /\ Tiers = <<"structured", "free_text">>

\* C2's case: the structured call succeeded and was returned
C2_Witness ==
    /\ Succeeded(1)
    /\ pc = "returned"
    /\ Len(calls) = 1

(***************************************************************************)
(* C3.  With a non-blank transcript, a failed structured attempt, a        *)
(* free-text answer that fails parsing or validation and a repair answer   *)
(* that parses and validates, generate_report returns the report decoded   *)
(* from the repair answer and raises nothing.                              *)
(***************************************************************************)
C3_RepairedReportReturned ==
    (/\ ~IsBlank(transcription)
     /\ Failed(1)
     /\ Failed(2) /\ replies[2].kind = "text"
     /\ Succeeded(3)) =>
        /\ pc = "returned"
        /\ report = model_validate(replies[3].text.doc)
        /\ status_code = 0

\* C3's case: the repair answer, inside a code block, was decoded and returned
C3_Witness ==
    /\ Failed(1) /\ Failed(2) /\ Succeeded(3)
    /\ startswith(replies[3].text.chars, Fence)
    /\ pc = "returned"

(***************************************************************************)
(* C5.  In every execution of generate_report the model is called at most  *)
(* three times: structured, free-text, repair, each at most once and in    *)
(* that order; no call follows a failed repair.                            *)
(***************************************************************************)
TierOrder == <<"structured", "free_text", "repair">>

C5_AtMostThreeCallsInOrder ==
    /\ Len(calls) <= 3
    /\ \A i \in 1..Len(calls) : calls[i].tier = TierOrder[i]
    /\ Len(replies) <= Len(calls)
    /\ pc \in {"returned", "raised"} => Len(replies) = Len(calls)

\* C5's case: all three tiers were called and the repair failed
C5_Witness ==
    /\ Len(calls) = 3
    /\ Failed(3)
    /\ pc = "raised"

(***************************************************************************)
(* C6.  generate_report ends in exactly one of two ways: it returns a      *)
(* report that meets the contract (scores in 0..100, the eight criteria,   *)
(* list lengths within bounds), whichever tier produced it, or it raises;  *)
(* it never returns a report that violates the contract.                   *)
(***************************************************************************)
C6_ReportOrFailure ==
    /\ pc = "returned" =>
          /\ report # None
          /\ SatisfiesContract(report)
          /\ status_code = 0
    /\ pc = "raised" => (report = None /\ status_code \in {422, 502})
    /\ pc \notin {"returned", "raised"} => (report = None /\ status_code = 0)

\* C6's case: the structured tier's report was returned
C6_Witness ==
    /\ pc = "returned"
    /\ Len(replies) = 1
    /\ report # None

(***************************************************************************)
(* C4.  When the structured attempt fails and both the free-text answer    *)
(* and the repair answer fail parsing or validation, generate_report       *)
(* raises HTTP 502, the request is answered with 502 and commits no        *)
(* ReportRecord.                                                           *)
(***************************************************************************)
C4_AllTiersFailNothingStored ==
    (Failed(1) /\ Failed(2) /\ Failed(3)) =>
        /\ pc \in {"raised", "responded"}
        /\ status_code = 502
        /\ report = None
        /\ sess_report = None
        /\ db_reports = snapshot.reports
        /\ pc = "responded" => http_status = 502

\* C4's case: a request whose three tiers failed was answered, after an
\* earlier request had stored a report
C4_Witness ==
    /\ Failed(1) /\ Failed(2) /\ Failed(3)
    /\ replies[3].kind = "text"
    /\ pc = "responded"
    /\ http_status = 502
    /\ Len(db_reports) = 1

(***************************************************************************)
(* The ways of wrapping a text in a code block: markers on lines of their  *)
(* own, the opening marker with a language tag, markers on the same line   *)
(* as the text.                                                            *)
(***************************************************************************)
WrapOwnLines(chars) == Fence \o <<"\n">> \o chars \o <<"\n">> \o Fence
WrapTagged(chars) == Fence \o <<"j", "\n">> \o chars \o <<"\n">> \o Fence
WrapSameLine(chars) == Fence \o chars \o Fence

Wrappings(chars) == {WrapOwnLines(chars), WrapTagged(chars), WrapSameLine(chars)}

(***************************************************************************)
(* C12 as claimed.  For every text the model answers with,                 *)
(* _parse_and_validate gives the same result (the same report, or None)    *)
(* for the text wrapped in a leading and a trailing code block marker as   *)
(* for the text unwrapped, whether the markers are on lines of their own,  *)
(* carry a language tag, or are on the same line as the JSON.              *)
(***************************************************************************)
C12_FenceStrippingTransparent ==
    \A i \in 1..Len(replies) :
        replies[i].kind = "text" =>
            \A w \in Wrappings(replies[i].text.chars) :
                parse_and_validate(Text(w, replies[i].text.doc))
                    = parse_and_validate(replies[i].text)

\* the request in progress has been answered
Responded == pc = "responded"

\* generate_report was called in the request and raised
GenerationFailed == Responded /\ status_code # 0

(***************************************************************************)
(* C13.  If transcription succeeds but report generation fails, the        *)
(* committed EvaluationRecord of the employee is, once the request is      *)
(* answered, exactly what it was before the request: a record that did not *)
(* exist is not created, an existing one keeps its transcript and          *)
(* updated_by; nothing of the request is left in the session.              *)
(***************************************************************************)
C13_GenerationFailureLeavesRecord ==
    GenerationFailed =>
        /\ db_evaluation = snapshot.evaluation
        /\ sess_evaluation = None

\* C13's case: generation failed in a request whose transcript differs from
\* the one the employee's record holds
C13_Witness ==
    /\ GenerationFailed
    /\ http_status = 502
    /\ \E r \in db_evaluation : r.employee_id = employee_id /\ r.feedback # transcription

(***************************************************************************)
(* C14 as claimed.  Whenever generate_report fails inside a request, for   *)
(* any reason, the request is answered with HTTP 502; this includes a      *)
(* transcript the transcriber returned that is not empty but only          *)
(* whitespace.                                                             *)
(***************************************************************************)
C14_GenerationFailureIs502 ==
    GenerationFailed => http_status = 502

\* the requests answered so far were all successful
AllSuccessful == Len(outcomes) = nreq

\* the submissions of employee e answered so far, in order
SubmissionsOf(e) == SelectSeq(outcomes, LAMBDA o : o.employee_id = e)

\* the committed reports of the evaluation row ev, newest commit first
NewestFirst(ev) ==
    LET mine == SelectSeq(db_reports, LAMBDA r : r.employee_evaluation_id = ev.id)
    IN  [i \in 1..Len(mine) |-> mine[Len(mine) + 1 - i]]

(***************************************************************************)
(* C15.  After any sequence of successful submissions made one after the   *)
(* other, storage holds for each employee who submitted exactly one        *)
(* EvaluationRecord, whose transcript is that of the employee's last       *)
(* submission, and exactly one ReportRecord per submission, all            *)
(* referencing that record; get_reports_for_evaluation returns them        *)
(* newest first.                                                           *)
(***************************************************************************)
C15_OneRecordManyReports ==
    (pc = "idle" /\ AllSuccessful) =>
        \A e \in Employees :
            LET subs == SubmissionsOf(e)
                recs == {r \in db_evaluation : r.employee_id = e}
            IN  /\ Cardinality(recs) = IF subs = <<>> THEN 0 ELSE 1
                /\ \A ev \in recs :
                      /\ ev.feedback = subs[Len(subs)].transcription
                      /\ Len(NewestFirst(ev)) = Len(subs)
                      /\ get_reports_for_evaluation(db_reports, ev.id) = {NewestFirst(ev)}
                /\ \A i \in 1..Len(db_reports) :
                      db_reports[i].created_by = e =>
                          \E ev \in recs : db_reports[i].employee_evaluation_id = ev.id

\* C15's case: two successful submissions of one employee with different
\* transcripts
C15_Witness ==
    /\ pc = "idle"
    /\ AllSuccessful
    /\ Len(outcomes) = 2
    /\ outcomes[1].employee_id = outcomes[2].employee_id
    /\ outcomes[1].transcription # outcomes[2].transcription
    /\ Len(db_reports) = 2

\* both effects of the request in progress are committed: the upsert of the
\* employee's evaluation and exactly one new report attached to it
BothEffectsCommitted ==
    /\ \E ev \in db_evaluation :
          /\ ev.employee_id = employee_id
          /\ ev.feedback = transcription
          /\ Len(db_reports) = Len(snapshot.reports) + 1
          /\ SubSeq(db_reports, 1, Len(snapshot.reports)) = snapshot.reports
          /\ db_reports[Len(db_reports)].employee_evaluation_id = ev.id
    /\ {r \in db_evaluation : r.employee_id # employee_id}
          = {r \in snapshot.evaluation : r.employee_id # employee_id}

\* committed storage is what it was when the request arrived
NoEffectCommitted ==
    /\ db_evaluation = snapshot.evaluation
    /\ db_reports = snapshot.reports

(***************************************************************************)
(* C16 as claimed.  A request is all-or-nothing on storage: committed      *)
(* storage shows either both of its effects or none, and a request         *)
(* answered with an error, at whatever step the exception occurred         *)
(* (transcription, upsert, generation, report append, commit, building the *)
(* response), leaves committed storage as it was before the request.       *)
(***************************************************************************)
C16_AllOrNothing ==
    /\ snapshot # None => (BothEffectsCommitted \/ NoEffectCommitted)
    /\ (Responded /\ http_status # 200) => NoEffectCommitted
    /\ (Responded /\ http_status = 200) => BothEffectsCommitted

\* the handler of the request in progress has run validate_upload_file
UploadChecked ==
    file # None /\ employee_id # 0 /\ pc # "create_evaluation_report"

\* the upload of the request in progress passed validate_upload_file
UploadAccepted == UploadChecked /\ ~validate_upload_file_raises(file)

\* the request in progress was answered without a transcript: the
\* transcriber failed
TranscriberFailed == Responded /\ UploadAccepted /\ transcription = <<>>

(***************************************************************************)
(* C17.  If the transcriber fails (status other than 200, timeout,         *)
(* transport error, empty transcript) the request is answered with HTTP    *)
(* 502; no storage write was attempted in it (no upsert, no report row, no *)
(* row id drawn) and the generative model was not called.                  *)
(***************************************************************************)
C17_TranscriberFailureAborts ==
    TranscriberFailed =>
        /\ http_status = 502
        /\ calls = <<>> /\ replies = <<>>
        /\ sess_evaluation = None /\ sess_report = None
        /\ ~was_created
        /\ next_id = snapshot.next_id
        /\ NoEffectCommitted

\* C17's case: the transcriber failed in a request that came after a
\* successful one
C17_Witness ==
    /\ TranscriberFailed
    /\ Len(outcomes) = 1
    /\ snapshot.evaluation # {}

\* the upload has a file name and an audio or video content type
NamedAudioOrVideo(f) ==
    /\ f.filename # <<>>
    /\ f.content_type # <<>>
    /\ f.content_type[1] \in {"audio/", "video/"}

\* the request in progress was rejected with a 422 before anything else
\* happened: no transcript, no model call, no storage mutation
RejectedUpFront ==
    /\ Responded
    /\ http_status = 422
    /\ transcription = <<>>
    /\ calls = <<>>
    /\ sess_evaluation = None /\ sess_report = None
    /\ NoEffectCommitted

(***************************************************************************)
(* C18 as claimed.  An upload is accepted only if it has a file name, an   *)
(* audio or video content type and a size greater than 0 and strictly      *)
(* under max_upload_bytes; every other upload is rejected with 422 before  *)
(* the transcriber or the model is called and without storage mutation.    *)
(***************************************************************************)
C18_AcceptedOnlyStrictlyUnderCeiling ==
    (UploadChecked
        /\ ~(NamedAudioOrVideo(file) /\ file.size > 0 /\ file.size < max_upload_bytes))
    => RejectedUpFront

(***************************************************************************)
(* What validate_upload_file does guarantee: the same with a size of at    *)
(* most max_upload_bytes, the ceiling itself included.                     *)
(***************************************************************************)
UploadAcceptedOnlyUpToCeiling ==
    (UploadChecked
        /\ ~(NamedAudioOrVideo(file) /\ file.size > 0 /\ file.size <= max_upload_bytes))
    => RejectedUpFront

\* the request in progress was rejected by authentication (401, or 500 when
\* validate_token could not reach the identity provider) before anything
\* else happened
RejectedByAuthentication ==
    /\ Responded
    /\ http_status \in {401, 500}
    /\ employee_id = 0
    /\ transcription = <<>>
    /\ calls = <<>>
    /\ sess_evaluation = None /\ sess_report = None
    /\ NoEffectCommitted

(***************************************************************************)
(* C19 as claimed.  Authentication is decided by the credential the        *)
(* request presents: a request whose Authorization credential is missing   *)
(* or invalid is rejected with an authentication error, without storage    *)
(* mutation and without a transcription or report-generation call.  (The   *)
(* request is looked at once token_required has ended.)                    *)
(***************************************************************************)
C19_CredentialDecidesAuthentication ==
    (authorization # None /\ pc # "token_required"
        /\ authorization.header # "Bearer valid")
        => RejectedByAuthentication

\* every concurrent request has finished
AllFinished == \A w \in Workers : workers[w].pc = "done"

\* the workers whose request of employee e committed
CommittersOf(e) ==
    {w \in Workers : workers[w].employee_id = e /\ workers[w].commit_seq > 0}

\* the worker of employee e that committed last
LastCommitter(e) ==
    CHOOSE w \in CommittersOf(e) :
        \A v \in CommittersOf(e) : workers[v].commit_seq <= workers[w].commit_seq

(***************************************************************************)
(* C20 as claimed.  For every interleaving of concurrent submissions of    *)
(* one employee, once all of them have finished the committed transcript   *)
(* of the employee's EvaluationRecord is the transcript of the request     *)
(* that committed last.                                                    *)
(***************************************************************************)
C20_LastCommittedWriteWins ==
    AllFinished =>
        \A e \in Employees :
            CommittersOf(e) # {} =>
                \A r \in db_evaluation :
                    r.employee_id = e =>
                        r.feedback = workers[LastCommitter(e)].transcription

(***************************************************************************)
(* EvaluationRepository on its own: get_or_create_evaluation called with    *)
(* any employee, feedback and user_id, then committed or rolled back.      *)
(***************************************************************************)
\* the user_id arguments: None (0) or the id of an employee
Actors == {0} \cup Employees

\* the variables a repository call leaves alone
repoFrame ==
    <<valVars, response_text, report, status_code, detail, calls, replies,
      authorization, file, sess_report, db_reports, http_status, snapshot, outcomes,
      workers>>

\* get_or_create_evaluation(employee_id, feedback, user_id) up to its flush,
\* in a session of its own: its query begins the transaction
GetOrCreateEvaluation ==
    /\ pc = "idle"
    /\ nreq < MaxRequests
    /\ clock' = clock + 1
    /\ \E e \in Employees, t \in ConcurrentTranscripts, a \in Actors :
          LET got == get_or_create_evaluation(
                         get_evaluation_by_employee_id(db_evaluation, e), next_id, e, t, a,
                         clock + 1)
          IN  /\ employee_id' = e
              /\ transcription' = t
              /\ actor_id' = a
              /\ sess_evaluation' = got[1]
              /\ was_created' = got[2]
              /\ next_id' = IF got[2] THEN next_id + 1 ELSE next_id
    /\ nreq' = nreq + 1
    /\ session_open' = TRUE
    /\ pc' = "flushed"
    /\ UNCHANGED <<db_evaluation, repoFrame>>

\* the session forgets the call
ForgetCall ==
    /\ sess_evaluation' = None
    /\ was_created' = FALSE
    /\ employee_id' = 0
    /\ actor_id' = 0
    /\ transcription' = <<>>
    /\ session_open' = FALSE
    /\ pc' = "idle"

\* db.commit() after the call
CommitSession ==
    /\ pc = "flushed"
    /\ db_evaluation' = Committed(db_evaluation, sess_evaluation)
    /\ ForgetCall
    /\ UNCHANGED <<nreq, next_id, clock, repoFrame>>

\* db.rollback() after the call
RollbackSession ==
    /\ pc = "flushed"
    /\ next_id' = IF was_created THEN next_id - 1 ELSE next_id
    /\ ForgetCall
    /\ UNCHANGED <<nreq, db_evaluation, clock, repoFrame>>

NextRepository ==
    \/ GetOrCreateEvaluation
    \/ CommitSession
    \/ RollbackSession

SpecRepository == Init /\ [][NextRepository]_vars

\* no two committed evaluation rows have the same employee_id
OnePerEmployee(table) ==
    \A r1, r2 \in table : r1.employee_id = r2.employee_id => r1 = r2

(***************************************************************************)
(* C21.  In every reachable committed storage state, under any             *)
(* interleaving of concurrent requests, there is at most one               *)
(* EvaluationRecord per employee.                                          *)
(***************************************************************************)
C21_AtMostOneRecordPerEmployee == OnePerEmployee(db_evaluation)

\* C21's case: two requests of one employee without a record raced on the
\* insert; one committed its row, the other was refused
C21_Witness ==
    /\ AllFinished
    /\ \E v, w \in Workers :
          /\ v # w
          /\ workers[v].employee_id = workers[w].employee_id
          /\ workers[v].existing = None /\ workers[w].existing = None
          /\ workers[v].commit_seq > 0
          /\ workers[w].status = 500 /\ workers[w].commit_seq = 0
    /\ Cardinality(db_evaluation) = 1

\* the committed report rows only grow in this step, and every row there
\* before is still there with its body, its evaluation and its creator
ReportsOnlyAppended ==
    /\ Len(db_reports') >= Len(db_reports)
    /\ \A i \in 1..Len(db_reports) :
          \E j \in 1..Len(db_reports') :
             /\ db_reports'[j].id = db_reports[i].id
             /\ db_reports'[j].report = db_reports[i].report
             /\ db_reports'[j].employee_evaluation_id = db_reports[i].employee_evaluation_id
             /\ db_reports'[j].created_by = db_reports[i].created_by

(***************************************************************************)
(* C22.  The report history is append-only: in every step the set of       *)
(* committed ReportRecords only grows, and the body, the parent            *)
(* evaluation and the creator of every record already committed stay as    *)
(* they were.                                                              *)
(***************************************************************************)
C22_ReportHistoryAppendOnly == [][ReportsOnlyAppended]_vars

\* C22's case: a report was committed while an earlier one was in storage
C22_Witness ==
    /\ Len(db_reports) >= 2
    /\ pc = "responded"
    /\ http_status = 200

\* the committed evaluation rows of employee b
RecordsOf(b, evaluations) == {r \in evaluations : r.employee_id = b}

\* the committed report rows of employee b: those of its evaluation rows
ReportsOf(b, evaluations, reports) ==
    {reports[i] : i \in {j \in 1..Len(reports) :
                            \E r \in RecordsOf(b, evaluations) :
                               r.id = reports[j].employee_evaluation_id}}

\* this step changes committed rows of employee b
ChangesRowsOf(b) ==
    \/ RecordsOf(b, db_evaluation') # RecordsOf(b, db_evaluation)
    \/ ReportsOf(b, db_evaluation', db_reports') # ReportsOf(b, db_evaluation, db_reports)

\* in this step a request of employee b commits
CommitOf(b) ==
    \E w \in Workers :
        /\ workers[w].employee_id = b
        /\ workers[w].pc = "await_generate"
        /\ workers'[w].commit_seq > 0

\* another request of the employee of w holds an uncommitted write
SameEmployeeWriting(w) ==
    \E v \in Workers \ {w} :
        /\ workers[v].employee_id = workers[w].employee_id
        /\ InTransaction(v)
        /\ workers[v].wrote

\* in this step the insert of request w is refused
InsertRefused(w) ==
    /\ workers[w].pc = "flush"
    /\ workers'[w].pc = "done"

\* a request of the employee of w has committed
SameEmployeeCommitted(w) ==
    \E v \in Workers \ {w} :
        /\ workers[v].employee_id = workers[w].employee_id
        /\ workers[v].commit_seq > 0

\* requests of other employees neither change the rows of an employee nor
\* make a request of that employee wait or fail
NoInteraction ==
    /\ \A b \in Employees : ChangesRowsOf(b) => CommitOf(b)
    /\ \A w \in Workers :
          /\ InsertRefused(w) => SameEmployeeCommitted(w)
          /\ workers[w].pc = "flush" /\ ~SameEmployeeWriting(w) => ENABLED WFlush(w)

(***************************************************************************)
(* C23.  Requests of different employees do not interact: in every         *)
(* interleaving, the committed EvaluationRecord and ReportRecords of an    *)
(* employee change only in the commit of a request of that employee, and   *)
(* a request waits or is refused at the upsert only because of another     *)
(* request of its own employee.                                            *)
(***************************************************************************)
C23_DifferentEmployeesDoNotInteract == [][NoInteraction]_vars

\* C23's case: a request of one employee began its transaction after a
\* request of another employee and committed before it; both wrote
C23_Witness ==
    \E v, w \in Workers :
        /\ workers[v].employee_id # workers[w].employee_id
        /\ workers[v].commit_seq > workers[w].commit_seq
        /\ workers[w].commit_seq > 0
        /\ workers[w].started_at > workers[v].started_at
        /\ workers[v].wrote /\ workers[w].wrote

\* the request was answered with a failure raised after its transcript arrived:
\* by the storage steps, by generate_report, or by building the response
FailedAfterTranscription ==
    /\ pc = "responded"
    /\ http_status \in {500, 502}
    /\ Truthy(transcription)

(***************************************************************************)
(* C24.  The response to an internal or unexpected failure is the same     *)
(* whatever the message of the exception behind it: its body carries no    *)
(* exception message.                                                      *)
(***************************************************************************)
C24_FailureResponseIndependentOfMessage ==
    FailedAfterTranscription => detail.kind # "exception"

\* the committed row of the employee the call in progress is about, or None
ExistingRecord == get_evaluation_by_employee_id(db_evaluation, employee_id)

\* the columns of an evaluation row
EvaluationColumns ==
    {"id", "employee_id", "feedback", "created_by", "updated_by", "created_at",
     "updated_at"}

\* the call in progress left every column of the record outside `columns`
\* as it was
KeepsAllBut(columns) ==
    \A c \in EvaluationColumns \ columns : sess_evaluation[c] = ExistingRecord[c]

\* what the call in progress did on an employee without a record
CreatedForActor ==
    /\ was_created
    /\ sess_evaluation.employee_id = employee_id
    /\ sess_evaluation.feedback = transcription
    /\ sess_evaluation.created_by = actor_id
    /\ sess_evaluation.updated_by = actor_id

(***************************************************************************)
(* C25 as claimed.  get_or_create_evaluation on an employee with a record  *)
(* returns that record with was_created false and replaces only its        *)
(* feedback and updated_by: every other column of the row is as it was;    *)
(* on an employee without a record it returns a new record with            *)
(* was_created true and created_by = updated_by = the actor.               *)
(***************************************************************************)
C25_ReplacesOnlyFeedbackAndUpdatedBy ==
    pc = "flushed" =>
        IF ExistingRecord # None
        THEN /\ ~was_created
             /\ sess_evaluation.feedback = transcription
             /\ actor_id # 0 => sess_evaluation.updated_by = actor_id
             /\ KeepsAllBut({"feedback", "updated_by"})
        ELSE CreatedForActor

(***************************************************************************)
(* C25.  get_or_create_evaluation on an employee with a record returns     *)
(* that record with was_created false, its feedback the new transcript     *)
(* and its updated_by the actor given; besides these two only updated_at   *)
(* is replaced, by the start time of the call's transaction and only when  *)
(* feedback or updated_by changed; id, employee_id, created_by and         *)
(* created_at are as they were.  On an employee without a record it        *)
(* returns a new record with was_created true and created_by = updated_by  *)
(* = the actor.                                                            *)
(***************************************************************************)
C25_UpsertFrame ==
    pc = "flushed" =>
        IF ExistingRecord # None
        THEN /\ ~was_created
             /\ sess_evaluation.feedback = transcription
             /\ actor_id # 0 => sess_evaluation.updated_by = actor_id
             /\ KeepsAllBut({"feedback", "updated_by", "updated_at"})
             /\ sess_evaluation.updated_at =
                    IF KeepsAllBut({"updated_at"})
                    THEN ExistingRecord.updated_at
                    ELSE clock
        ELSE CreatedForActor

\* C25's case: the record of an employee is given a new transcript by an
\* actor who is not its creator, in a later transaction than the one that
\* wrote it last
C25_Witness ==
    /\ pc = "flushed"
    /\ ExistingRecord # None
    /\ actor_id # 0
    /\ actor_id # ExistingRecord.created_by
    /\ transcription # ExistingRecord.feedback
    /\ sess_evaluation.updated_by # ExistingRecord.updated_by
    /\ sess_evaluation.updated_at # ExistingRecord.updated_at

(***************************************************************************)
(* C26.  The upsert behaves as an upsert under concurrency: of two         *)
(* concurrent requests of an employee without a record, whose              *)
(* transcription succeeded, neither is refused at the upsert; no request   *)
(* fails because of the race.                                              *)
(***************************************************************************)
C26_NoRequestFailsBecauseOfRace == [][\A w \in Workers : ~InsertRefused(w)]_vars

\* the free-text response received follows the example of its prompt
ReceivedExampleOfUserPrompt ==
    /\ response_text # None
    /\ response_text.doc = FollowsUserPrompt

(***************************************************************************)
(* C27.  The JSON shape shown in the free-text prompt is the shape the     *)
(* schema requires: a free-text response that follows the example of       *)
(* USER_PROMPT_TEMPLATE exactly passes validation, so it is never handed   *)
(* to the repair call.                                                     *)
(***************************************************************************)
C27_ResponseFollowingExampleValidates ==
    ReceivedExampleOfUserPrompt =>
        /\ model_validate(response_text.doc) # ValidationError
        /\ \A i \in 1..Len(calls) : calls[i].tier # "repair"

(***************************************************************************)
(* C28.  No partial acceptance: a candidate with a blank entry in          *)
(* strengths or improvement_areas is rejected, and an accepted report has  *)
(* as many entries in each of the two lists as the candidate had.          *)
(***************************************************************************)
C28_NoPartialAcceptance ==
    /\ (Validated /\ HasBlankEntry(cand.obj)) => Rejected
    /\ Accepted => \A f \in StrListFields : Len(verdict[f]) = Len(cand.obj[f])

\* call i was answered with a failure of the call itself
CallFailed(i) == i <= Len(replies) /\ replies[i].kind = "error"

\* call i is the repair call of a free-text response that was received and
\* failed parsing or validation, and its prompt carries that response as
\* received
RepairsReceivedText(i) ==
    /\ i > 1
    /\ calls[i - 1].tier = "free_text"
    /\ replies[i - 1].kind = "text"
    /\ parse_and_validate(replies[i - 1].text) = None
    /\ calls[i].prompt = replies[i - 1].text

(***************************************************************************)
(* C30.  The repair call is made only for a free-text response that was    *)
(* received and failed parsing or validation, and is given that response   *)
(* verbatim; a free-text call that itself fails ends generate_report with  *)
(* 502 and no further call; a structured call that fails in any way is     *)
(* followed by the free-text call.                                         *)
(***************************************************************************)
C30_RepairOnlyAfterReceivedFreeText ==
    \A i \in 1..Len(calls) :
        /\ calls[i].tier = "repair" => RepairsReceivedText(i)
        /\ (calls[i].tier = "free_text" /\ CallFailed(i)) =>
              /\ Len(calls) = i
              /\ pc = "raised" /\ status_code = 502
        /\ (/\ calls[i].tier = "structured"
            /\ i <= Len(replies)
            /\ generate_with_structured_output(replies[i]) = None) =>
              /\ Len(calls) > i
              /\ calls[i + 1].tier = "free_text"

\* C30's case: after a failed structured call the free-text response came
\* inside a code block, failed validation, and the repair call was given it
\* with its code block markers
C30_Witness ==
    /\ Len(calls) = 3
    /\ CallFailed(1)
    /\ calls[3].tier = "repair"
    /\ startswith(calls[3].prompt.chars, Fence)
    /\ StripCodeBlock(calls[3].prompt.chars) # calls[3].prompt.chars
    /\ calls[3].prompt = response_text

(***************************************************************************)
(* C29.  Every storage session checked out for a request is eventually     *)
(* closed, however the request ends, and no request is over while its      *)
(* session is still open.                                                  *)
(***************************************************************************)
C29_SessionEventuallyReleased ==
    /\ [](pc = "idle" => ~session_open)
    /\ session_open ~> ~session_open

\* C29's case: a request that failed with an unexpected exception after its
\* transcript was stored in the session has been answered, and its session
\* is about to be closed
C29_Witness ==
    /\ session_open
    /\ pc = "responded"
    /\ http_status = 500
    /\ Truthy(transcription)
    /\ nreq = MaxRequests

=============================================================================
